---------------------------- MODULE Spec2Model ----------------------------
(***************************************************************************)
(* Model of StlReader (src/src/stl_reader.h): the indexed mesh, the        *)
(* boundary capper, the mesh cleaner, the watertightness check, the volume *)
(* integral and the even-hit classifier.                                   *)
(*                                                                         *)
(* Numbers.  A float is modelled as an exact rational.  A Vec3 is a record *)
(* [x, y, z, w] that stands for the point (x/w, y/w, z/w), w > 0, kept in  *)
(* lowest terms, so that equal points are equal records; mesh vertices     *)
(* read from a file lie on the integer lattice (w = 1).  All inputs are    *)
(* lattice points of magnitude a few units, so every nonzero length, area  *)
(* or determinant the code compares against one of the tolerances 1e-10    *)
(* and 1e-5 is a rational with a small denominator and exceeds the         *)
(* tolerance: such a comparison is modelled by the comparison with 0.      *)
(* The eps = 1e-6 of rayIntersect is kept as it is.                        *)
(* A stored facet normal is modelled by its direction: the code's          *)
(* normalised vector n/|n| is the primitive integer vector parallel to n.  *)
(*                                                                         *)
(* Indices are 0-based as in the code: vertex i is vertices_[i + 1].       *)
(***************************************************************************)
EXTENDS Integers, Sequences, FiniteSets, TLC

VARIABLES
    triangles_,             \* std::vector<Triangle>: raw triangles as read
    vertices_,              \* std::vector<Vec3>: merged vertex table
    indexedTriangles_,      \* std::vector<IndexedTri>
    originalFacetNormals_,  \* std::vector<Vec3>: normals as supplied
    out,                    \* the caller's std::vector<Triangle>
    call,                   \* the last operation: its name, arguments and result
    tr                      \* addCaps in progress: the locals of its trace loop

vars == <<triangles_, vertices_, indexedTriangles_, originalFacetNormals_, out, call, tr>>

reader == <<triangles_, vertices_, indexedTriangles_, originalFacetNormals_>>

--------------------------------------------------------------------------
(* Arithmetic *)

Abs(n) == IF n < 0 THEN -n ELSE n

Sign(n) == IF n < 0 THEN -1 ELSE IF n = 0 THEN 0 ELSE 1

Min(a, b) == IF a < b THEN a ELSE b

Max(a, b) == IF a < b THEN b ELSE a

RECURSIVE GCD(_, _)
GCD(a, b) == IF b = 0 THEN a ELSE GCD(b, a % b)

GCD3(a, b, c) == GCD(GCD(Abs(a), Abs(b)), Abs(c))

\* A rational p/q, q > 0, in lowest terms.
Rat(p, q) ==
    LET s == IF q < 0 THEN -1 ELSE 1
        g == GCD(Abs(p), Abs(q))
    IN  [num |-> (s * p) \div g, den |-> (s * q) \div g]

RLess(a, b) == a.num * b.den < b.num * a.den

RSub(a, b) == Rat(a.num * b.den - b.num * a.den, a.den * b.den)

--------------------------------------------------------------------------
(* Vec3 *)

\* The point (x/w, y/w, z/w), in lowest terms.
Vec(x, y, z, w) ==
    LET g == GCD(GCD3(x, y, z), Abs(w))
        s == IF w < 0 THEN -1 ELSE 1
    IN  [x |-> (s * x) \div g, y |-> (s * y) \div g, z |-> (s * z) \div g,
         w |-> (s * w) \div g]

P(x, y, z) == [x |-> x, y |-> y, z |-> z, w |-> 1]

Zero3 == P(0, 0, 0)

\* Vec3::operator<
Less(a, o) ==
    IF a.x * o.w # o.x * a.w THEN a.x * o.w < o.x * a.w
    ELSE IF a.y * o.w # o.y * a.w THEN a.y * o.w < o.y * a.w
    ELSE a.z * o.w < o.z * a.w

\* The equivalence std::map<Vec3, size_t> uses for its keys.
SameKey(a, b) == ~Less(a, b) /\ ~Less(b, a)

VSub(a, b) == Vec(a.x * b.w - b.x * a.w, a.y * b.w - b.y * a.w,
                  a.z * b.w - b.z * a.w, a.w * b.w)

VAdd(a, b) == Vec(a.x * b.w + b.x * a.w, a.y * b.w + b.y * a.w,
                  a.z * b.w + b.z * a.w, a.w * b.w)

VNeg(a) == [x |-> -a.x, y |-> -a.y, z |-> -a.z, w |-> a.w]

VDiv(a, n) == Vec(a.x, a.y, a.z, a.w * n)

\* The cross product e x f of two vectors.
Cross(e, f) == Vec(e.y * f.z - e.z * f.y, e.z * f.x - e.x * f.z,
                   e.x * f.y - e.y * f.x, e.w * f.w)

\* The sign of the dot product of two vectors (denominators are positive).
DotSign(a, b) == Sign(a.x * b.x + a.y * b.y + a.z * b.z)

IsZero(n) == n.x = 0 /\ n.y = 0 /\ n.z = 0

\* n / sqrt(n.n) for n # 0: the unit vector, modelled by its direction.
Normalized(n) ==
    LET g == GCD3(n.x, n.y, n.z)
    IN  P(n.x \div g, n.y \div g, n.z \div g)

\* (v1 - v0) x (v2 - v0), normalised when its length is positive.
FacetNormal(v0, v1, v2) ==
    LET n == Cross(VSub(v1, v0), VSub(v2, v0))
    IN  IF IsZero(n) THEN Zero3 ELSE Normalized(n)

Tri(n, a, b, c) == [normal |-> n, v0 |-> a, v1 |-> b, v2 |-> c]

IndexedTri(a, b, c) == [v0 |-> a, v1 |-> b, v2 |-> c]

edgeKey(a, b) == <<Min(a, b), Max(a, b)>>

\* The three sides of an indexed triangle, in winding order.
Sides(id) == <<<<id.v0, id.v1>>, <<id.v1, id.v2>>, <<id.v2, id.v0>>>>

PairLess(p, q) == p[1] < q[1] \/ (p[1] = q[1] /\ p[2] < q[2])

Range(s) == {s[i] : i \in 1..Len(s)}

\* The value e, computed after the value v: a loop's running value is
\* computed at each pass, not when the loop is over.
After(v, e) == IF v = v THEN e ELSE e


--------------------------------------------------------------------------
(* The indexed mesh *)

\* A lookup that matches a vertex on its x coordinate alone.
FindVertex_ByX(verts, v) ==
    LET hit == {i \in 1..Len(verts) : verts[i].x * v.w = v.x * verts[i].w}
    IN  IF hit = {} THEN -1 ELSE (CHOOSE i \in hit : TRUE) - 1

\* std::map<Vec3, size_t>::find over the table built so far: the 0-based
\* slot of the vertex with v's key, or -1.
FindVertex(verts, v) ==
    LET hit == {i \in 1..Len(verts) : SameKey(verts[i], v)}
    IN  IF hit = {} THEN -1 ELSE (CHOOSE i \in hit : TRUE) - 1

\* The lambda id / getIdx: v's slot, given the table after the lookup.
AddVertex(verts, v) == IF FindVertex(verts, v) >= 0 THEN verts ELSE Append(verts, v)

\* The vertex table after looking up the three corners of each triangle.
RECURSIVE MergeVertices(_, _)
MergeVertices(tris, verts) ==
    IF tris = <<>> THEN verts
    ELSE LET t == Head(tris)
             a == AddVertex(verts, t.v0)
             b == AddVertex(a, t.v1)
             c == AddVertex(b, t.v2)
         IN  After(c, MergeVertices(Tail(tris), c))

IndexTriangle(verts, t) ==
    IndexedTri(FindVertex(verts, t.v0), FindVertex(verts, t.v1), FindVertex(verts, t.v2))

\* A removeDuplicateVertices that retains the normals in reverse order.
removeDuplicateVertices_NormalsReversed(tris) ==
    LET verts == MergeVertices(tris, <<>>)
    IN  [originalFacetNormals |-> [i \in 1..Len(tris) |-> tris[Len(tris) + 1 - i].normal],
         vertices |-> verts,
         indexedTriangles |-> [i \in 1..Len(tris) |-> IndexTriangle(verts, tris[i])],
         triangles |-> <<>>]

\* removeDuplicateVertices: the reader's fields after the call.
removeDuplicateVertices(tris) ==
    LET verts == MergeVertices(tris, <<>>)
    IN  [originalFacetNormals |-> [i \in 1..Len(tris) |-> tris[i].normal],
         vertices |-> verts,
         indexedTriangles |-> [i \in 1..Len(tris) |-> IndexTriangle(verts, tris[i])],
         triangles |-> <<>>]

triangleCount == Len(indexedTriangles_)

\* getTriangle(i), i < triangleCount.
getTriangle(i) ==
    LET id == indexedTriangles_[i + 1]
        a == vertices_[id.v0 + 1]
        b == vertices_[id.v1 + 1]
        c == vertices_[id.v2 + 1]
    IN  Tri(FacetNormal(a, b, c), a, b, c)

\* A winding test that takes a dot product within the tolerance as consistent.
WindingOf_ZeroIsOk(i) ==
    LET t == getTriangle(i)
        n == Cross(VSub(t.v1, t.v0), VSub(t.v2, t.v0))
    IN  IF IsZero(n) THEN "skipped"
        ELSE IF DotSign(n, originalFacetNormals_[i + 1]) >= 0 THEN "ok" ELSE "wrong"

\* One pass of the loop of checkRightHandWinding for triangle i: the cross
\* product of the two sides at v0, skipped when its length is zero, and the
\* sign of its dot product with the retained normal (tol is modelled as 0).
WindingOf(i) ==
    LET t == getTriangle(i)
        n == Cross(VSub(t.v1, t.v0), VSub(t.v2, t.v0))
    IN  IF IsZero(n) THEN "skipped"
        ELSE IF DotSign(n, originalFacetNormals_[i + 1]) > 0 THEN "ok"
        ELSE IF DotSign(n, originalFacetNormals_[i + 1]) < 0 THEN "wrong"
        ELSE "skipped"

RECURSIVE WindingFrom(_, _)
\* The loop of checkRightHandWinding from triangle i on, with the counters
\* and the printed lines so far.
WindingFrom(i, acc) ==
    IF i >= Len(indexedTriangles_) THEN acc
    ELSE WindingFrom(i + 1,
            [ok |-> acc.ok + (IF WindingOf(i) = "ok" THEN 1 ELSE 0),
             wrong |-> acc.wrong + (IF WindingOf(i) = "wrong" THEN 1 ELSE 0),
             opposite |-> IF WindingOf(i) = "wrong" THEN Append(acc.opposite, i)
                          ELSE acc.opposite,
             summary |-> TRUE])

\* checkRightHandWinding(out): the two counts of the summary line and the
\* triangles of the "opposite winding" lines; nothing is printed when the
\* normal array and the triangle list differ in length.
checkRightHandWinding ==
    IF Len(originalFacetNormals_) # Len(indexedTriangles_)
    THEN [ok |-> 0, wrong |-> 0, opposite |-> <<>>, summary |-> FALSE]
    ELSE WindingFrom(0, [ok |-> 0, wrong |-> 0, opposite |-> <<>>, summary |-> TRUE])

\* A triple product without its a.z term.
Triple_WithoutZ(a, b, c) ==
    Rat(a.x * (b.y * c.z - b.z * c.y) + a.y * (b.z * c.x - b.x * c.z),
        a.w * b.w * c.w)

\* a . (b x c) for three points, as a rational.
Triple(a, b, c) ==
    Rat(a.x * (b.y * c.z - b.z * c.y) + a.y * (b.z * c.x - b.x * c.z)
          + a.z * (b.x * c.y - b.y * c.x),
        a.w * b.w * c.w)

\* a + b over the least common denominator.
RAdd(a, b) ==
    LET g == GCD(a.den, b.den)
    IN  Rat(a.num * (b.den \div g) + b.num * (a.den \div g), (a.den \div g) * b.den)

RECURSIVE SumTriples(_, _)
SumTriples(vertices, ids) ==
    IF ids = <<>> THEN Rat(0, 1)
    ELSE LET id == Head(ids)
             t == Triple(vertices[id.v0 + 1], vertices[id.v1 + 1], vertices[id.v2 + 1])
             rest == SumTriples(vertices, Tail(ids))
         IN  After(rest, RAdd(Rat(t.num, t.den * 6), rest))

\* A volume() that returns the signed sum.
volume_Signed == SumTriples(vertices_, indexedTriangles_)

\* volume(): |sum of a.(b x c)/6|.
volume ==
    LET sum == SumTriples(vertices_, indexedTriangles_)
    IN  IF sum.num < 0 THEN Rat(-sum.num, sum.den) ELSE sum

--------------------------------------------------------------------------
(* checkWatertight *)

SortedKey(id) ==
    LET lo == Min(id.v0, Min(id.v1, id.v2))
        hi == Max(id.v0, Max(id.v1, id.v2))
    IN  <<lo, id.v0 + id.v1 + id.v2 - lo - hi, hi>>

\* The number of triangles whose sorted key an earlier triangle already has.
CountDuplicates(ids) ==
    Cardinality({i \in 1..Len(ids) :
        \E j \in 1..(i - 1) : SortedKey(ids[j]) = SortedKey(ids[i])})

\* edgeCount[k]: how many sides of the triangles have key k.
EdgeIncidence(ids, k) ==
    Cardinality({<<i, s>> \in (1..Len(ids)) \X (1..3) :
        edgeKey(Sides(ids[i])[s][1], Sides(ids[i])[s][2]) = k})

EdgeKeys(ids) ==
    {edgeKey(Sides(ids[i])[s][1], Sides(ids[i])[s][2]) : i \in 1..Len(ids), s \in 1..3}

\* area2 <= areaEps * areaEps for the triangle's cross product.
ZeroArea(a, b, c) == IsZero(Cross(VSub(b, a), VSub(c, a)))

\* A checkWatertight without the early return for a mesh of no triangles.
checkWatertight_NoEmptyCase ==
    LET ids == indexedTriangles_
        dup == CountDuplicates(ids)
        keys == EdgeKeys(ids)
        bnd == Cardinality({k \in keys : EdgeIncidence(ids, k) = 1})
        nonm == Cardinality({k \in keys : EdgeIncidence(ids, k) > 2})
    IN  [noTriangles |-> FALSE, duplicateTriangles |-> dup, boundaryEdges |-> bnd,
         nonManifoldEdges |-> nonm, degenerate |-> 0,
         watertight |-> (dup = 0 /\ bnd = 0 /\ nonm = 0)]

\* A checkWatertight whose verdict leaves out the non-manifold edges.
checkWatertight_IgnoresNonManifold ==
    IF indexedTriangles_ = <<>>
    THEN [noTriangles |-> TRUE, duplicateTriangles |-> 0, boundaryEdges |-> 0,
          nonManifoldEdges |-> 0, degenerate |-> 0, watertight |-> FALSE]
    ELSE LET ids == indexedTriangles_
             dup == CountDuplicates(ids)
             keys == EdgeKeys(ids)
             bnd == Cardinality({k \in keys : EdgeIncidence(ids, k) = 1})
             nonm == Cardinality({k \in keys : EdgeIncidence(ids, k) > 2})
             deg == Cardinality({i \in 1..Len(ids) :
                        ZeroArea(vertices_[ids[i].v0 + 1], vertices_[ids[i].v1 + 1],
                                 vertices_[ids[i].v2 + 1])})
         IN  [noTriangles |-> FALSE, duplicateTriangles |-> dup, boundaryEdges |-> bnd,
              nonManifoldEdges |-> nonm, degenerate |-> deg,
              watertight |-> (dup = 0 /\ bnd = 0 /\ deg = 0)]

checkWatertight ==
    IF indexedTriangles_ = <<>>
    THEN [noTriangles |-> TRUE, duplicateTriangles |-> 0, boundaryEdges |-> 0,
          nonManifoldEdges |-> 0, degenerate |-> 0, watertight |-> FALSE]
    ELSE LET ids == indexedTriangles_
             dup == CountDuplicates(ids)
             keys == EdgeKeys(ids)
             bnd == Cardinality({k \in keys : EdgeIncidence(ids, k) = 1})
             nonm == Cardinality({k \in keys : EdgeIncidence(ids, k) > 2})
             deg == Cardinality({i \in 1..Len(ids) :
                        ZeroArea(vertices_[ids[i].v0 + 1], vertices_[ids[i].v1 + 1],
                                 vertices_[ids[i].v2 + 1])})
         IN  [noTriangles |-> FALSE, duplicateTriangles |-> dup, boundaryEdges |-> bnd,
              nonManifoldEdges |-> nonm, degenerate |-> deg,
              watertight |-> (dup = 0 /\ bnd = 0 /\ nonm = 0 /\ deg = 0)]

--------------------------------------------------------------------------
(* addCaps *)

\* The entries of triangleIndices that addCaps uses (i < indexedTriangles_.size()).
ValidAt(subset) == {j \in 1..Len(subset) : subset[j] < Len(indexedTriangles_)}

\* A copy loop that lists the subset's triangles from the last to the first.
RECURSIVE SubsetTriangles_Reversed(_)
SubsetTriangles_Reversed(subset) ==
    IF subset = <<>> THEN <<>>
    ELSE IF Head(subset) < Len(indexedTriangles_)
         THEN SubsetTriangles_Reversed(Tail(subset)) \o <<getTriangle(Head(subset))>>
         ELSE SubsetTriangles_Reversed(Tail(subset))

\* The copies of the subset's triangles that open outTriangles.
RECURSIVE SubsetTriangles(_)
SubsetTriangles(subset) ==
    IF subset = <<>> THEN <<>>
    ELSE IF Head(subset) < Len(indexedTriangles_)
         THEN <<getTriangle(Head(subset))>> \o SubsetTriangles(Tail(subset))
         ELSE SubsetTriangles(Tail(subset))

\* edgeToDirected[k]: the directed sides with key k, as (position in the
\* subset, side) pairs.
edgeToDirected(subset, k) ==
    {js \in ValidAt(subset) \X (1..3) :
        LET sd == Sides(indexedTriangles_[subset[js[1]] + 1])[js[2]]
        IN  edgeKey(sd[1], sd[2]) = k}

DirectedKeys(subset) ==
    {edgeKey(Sides(indexedTriangles_[subset[j] + 1])[s][1],
             Sides(indexedTriangles_[subset[j] + 1])[s][2]) :
        j \in ValidAt(subset), s \in 1..3}

\* The keys of a set of pairs in the order std::map iterates them.
SortPairs(S) ==
    [i \in 1..Cardinality(S) |->
        CHOOSE p \in S : Cardinality({q \in S : PairLess(q, p)}) = i - 1]

\* boundaryEdges: for each key with exactly one directed side, that side
\* with its owning triangle, in key order.
boundaryEdges(subset) ==
    LET ks == SortPairs({k \in DirectedKeys(subset) :
                             Cardinality(edgeToDirected(subset, k)) = 1})
    IN  [i \in 1..Len(ks) |->
            LET js == CHOOSE x \in edgeToDirected(subset, ks[i]) : TRUE
                ti == subset[js[1]]
                sd == Sides(indexedTriangles_[ti + 1])[js[2]]
            IN  [from |-> sd[1], to |-> sd[2], triIdx |-> ti]]

\* nextMap[v]: the boundary edges leaving v, in boundaryEdges order.
nextMap(be, v) == SelectSeq(be, LAMBDA e : e.from = v)

RECURSIVE SumVertices(_)
SumVertices(loop) ==
    IF loop = <<>> THEN Zero3
    ELSE LET rest == SumVertices(Tail(loop))
         IN  After(rest, VAdd(vertices_[Head(loop) + 1], rest))

\* One pass of capOneLoop's for loop: the cap for side i of the loop, or
\* nothing when its area is zero.
CapTriangle(loop, C, adjNormal, i) ==
    LET a  == loop[i]
        b  == loop[(i % Len(loop)) + 1]
        va == vertices_[a + 1]
        vb == vertices_[b + 1]
        n  == Cross(VSub(va, C), VSub(vb, C))
        dot == DotSign(n, adjNormal)
        nn == Normalized(n)
    IN  IF IsZero(n) THEN <<>>
        ELSE <<Tri(IF dot < 0 THEN VNeg(nn) ELSE nn, C,
                   IF dot >= 0 THEN va ELSE vb, IF dot >= 0 THEN vb ELSE va)>>

RECURSIVE CapsFrom(_, _, _, _)
CapsFrom(loop, C, adjNormal, i) ==
    IF i > Len(loop) THEN <<>>
    ELSE CapTriangle(loop, C, adjNormal, i) \o CapsFrom(loop, C, adjNormal, i + 1)

\* A capOneLoop whose for loop starts at the loop's second side.
capOneLoop_SkipsFirstSide(outTriangles, loop, triIdxForNormal) ==
    IF Len(loop) < 3 THEN outTriangles
    ELSE outTriangles \o
         CapsFrom(loop, VDiv(SumVertices(loop), Len(loop)),
                  getTriangle(triIdxForNormal).normal, 2)

\* capOneLoop: outTriangles after capping the loop.
capOneLoop(outTriangles, loop, triIdxForNormal) ==
    IF Len(loop) < 3 THEN outTriangles
    ELSE LET C == VDiv(SumVertices(loop), Len(loop))
             adjTri == getTriangle(triIdxForNormal)
         IN  outTriangles \o CapsFrom(loop, C, adjTri.normal, 1)

IndexIn(loop, v) == CHOOSE i \in 1..Len(loop) : loop[i] = v /\ \A j \in 1..(i - 1) : loop[j] # v

Idle == [pc |-> "idle"]

\* addCaps up to its trace loop: outTriangles holds the subset's triangles.
\* capped lists the loops handed to capOneLoop so far and splits counts the
\* sub-loops split off a self-touching path.
TraceBegin(subset) ==
    LET base == [boundaryEdges |-> IF vertices_ = <<>> THEN <<>> ELSE boundaryEdges(subset),
                 used |-> {}, loop |-> <<>>, triOnLoop |-> <<>>,
                 start |-> 0, to |-> 0, capped |-> <<>>, splits |-> 0,
                 outTriangles |-> SubsetTriangles(subset)]
    IN  IF vertices_ = <<>> \/ base.boundaryEdges = <<>>
        THEN base @@ [pc |-> "done"]
        ELSE base @@ [pc |-> "outer"]

\* The head of the for (;;) loop: pick the first unused boundary edge and
\* open a path with it, or leave.
OuterStep(st) ==
    LET be == st.boundaryEdges
        free == {i \in 1..Len(be) : <<be[i].from, be[i].to>> \notin st.used}
    IN  IF free = {} THEN [st EXCEPT !.pc = "done"]
        ELSE LET e == be[CHOOSE i \in free : \A j \in free : i <= j]
             IN  [st EXCEPT !.pc = "inner",
                            !.start = e.from,
                            !.loop = <<e.from, e.to>>,
                            !.triOnLoop = <<e.triIdx, e.triIdx>>,
                            !.used = st.used \cup {<<e.from, e.to>>},
                            !.to = e.to]

\* capOneLoop(loop, triOnLoop[0]) after the while loop, then the next
\* iteration of the for (;;) loop.
CloseLoop(st) ==
    [st EXCEPT !.pc = "outer",
               !.outTriangles = capOneLoop(st.outTriangles, st.loop, st.triOnLoop[1]),
               !.capped = Append(st.capped, st.loop)]

\* A next-edge search that does not skip the edges in used.
UnusedNext_IgnoresUsed(st, nm) == 1..Len(nm)

\* The entries p of nextMap[to] that the for loop does not skip:
\* those with (to, p.first) not in used.
UnusedNext(st, nm) == {i \in 1..Len(nm) : <<st.to, nm[i].to>> \notin st.used}

\* One evaluation of while (to != start) and, when it holds, of its body.
InnerStep(st) ==
    IF st.to = st.start THEN CloseLoop(st)
    ELSE
    LET be == st.boundaryEdges
        nm == nextMap(be, st.to)
        free == UnusedNext(st, nm)
        p == nm[CHOOSE i \in free : \A j \in free : i <= j]
        nextV == IF free = {} THEN 0 ELSE p.to
        nextTri == IF free = {} THEN 0 ELSE p.triIdx
    IN  IF nextV = 0 THEN CloseLoop(st)
        ELSE IF \A i \in 1..Len(st.loop) : st.loop[i] # nextV
        THEN [st EXCEPT !.used = st.used \cup {<<st.to, nextV>>},
                        !.loop = Append(st.loop, nextV),
                        !.triOnLoop = Append(st.triOnLoop, nextTri),
                        !.to = nextV]
        ELSE IF nextV = st.start
        THEN CloseLoop([st EXCEPT !.used = st.used \cup {<<st.to, nextV>>}])
        ELSE LET idx == IndexIn(st.loop, nextV)
                 subLoop == SubSeq(st.loop, idx, Len(st.loop))
             IN  [st EXCEPT !.used = st.used \cup {<<st.to, nextV>>},
                            !.outTriangles =
                                capOneLoop(st.outTriangles, subLoop, st.triOnLoop[idx]),
                            !.capped = Append(st.capped, subLoop),
                            !.splits = st.splits + 1,
                            !.loop = SubSeq(st.loop, 1, idx),
                            !.triOnLoop = SubSeq(st.triOnLoop, 1, idx),
                            !.to = nextV]

TraceStep(st) == IF st.pc = "outer" THEN OuterStep(st) ELSE InnerStep(st)

RECURSIVE RunTrace(_)
RunTrace(st) == IF st.pc = "done" THEN st ELSE RunTrace(TraceStep(st))

\* addCaps(triangleIndices, outTriangles): the list it leaves in outTriangles.
addCaps(subset) == RunTrace(TraceBegin(subset)).outTriangles

--------------------------------------------------------------------------
(* cleanMesh *)

\* A degenerate test that compares only the first two indices.
RECURSIVE IndexNonDegenerate_FirstPairOnly(_, _)
IndexNonDegenerate_FirstPairOnly(tris, verts) ==
    IF tris = <<>> THEN <<>>
    ELSE LET id == IndexTriangle(verts, Head(tris))
         IN  IF id.v0 = id.v1
             THEN IndexNonDegenerate_FirstPairOnly(Tail(tris), verts)
             ELSE <<id>> \o IndexNonDegenerate_FirstPairOnly(Tail(tris), verts)

\* indexed: the index triples of the triangles with three distinct indices.
RECURSIVE IndexNonDegenerate(_, _)
IndexNonDegenerate(tris, verts) ==
    IF tris = <<>> THEN <<>>
    ELSE LET id == IndexTriangle(verts, Head(tris))
         IN  IF id.v0 = id.v1 \/ id.v1 = id.v2 \/ id.v2 = id.v0
             THEN IndexNonDegenerate(Tail(tris), verts)
             ELSE <<id>> \o IndexNonDegenerate(Tail(tris), verts)

\* A deduplication whose key is the index triple as listed, not sorted.
RECURSIVE UniqueTris_UnsortedKey(_, _)
UniqueTris_UnsortedKey(indexed, seen) ==
    IF indexed = <<>> THEN <<>>
    ELSE LET key == <<Head(indexed).v0, Head(indexed).v1, Head(indexed).v2>>
         IN  IF key \in seen THEN UniqueTris_UnsortedKey(Tail(indexed), seen)
             ELSE <<Head(indexed)>> \o UniqueTris_UnsortedKey(Tail(indexed), seen \cup {key})

\* uniqueTris: the triples whose sorted key was not seen before.
RECURSIVE UniqueTris(_, _)
UniqueTris(indexed, seen) ==
    IF indexed = <<>> THEN <<>>
    ELSE LET key == SortedKey(Head(indexed))
         IN  IF key \in seen THEN UniqueTris(Tail(indexed), seen)
             ELSE <<Head(indexed)>> \o UniqueTris(Tail(indexed), seen \cup {key})

\* A rebuild that writes each triangle with v1 and v2 exchanged.
RECURSIVE Rebuild_SwapsWinding(_, _)
Rebuild_SwapsWinding(uniqueTris, verts) ==
    IF uniqueTris = <<>> THEN <<>>
    ELSE LET tri == Head(uniqueTris)
             a == verts[tri.v0 + 1]
             b == verts[tri.v2 + 1]
             c == verts[tri.v1 + 1]
             n == Cross(VSub(b, a), VSub(c, a))
         IN  IF IsZero(n) THEN Rebuild_SwapsWinding(Tail(uniqueTris), verts)
             ELSE <<Tri(Normalized(n), a, b, c)>> \o Rebuild_SwapsWinding(Tail(uniqueTris), verts)

\* The rebuilt list: each unique triple with its recomputed normal, unless
\* the normal's length is (near) zero.
RECURSIVE Rebuild(_, _)
Rebuild(uniqueTris, verts) ==
    IF uniqueTris = <<>> THEN <<>>
    ELSE LET tri == Head(uniqueTris)
             a == verts[tri.v0 + 1]
             b == verts[tri.v1 + 1]
             c == verts[tri.v2 + 1]
             n == Cross(VSub(b, a), VSub(c, a))
         IN  IF IsZero(n) THEN Rebuild(Tail(uniqueTris), verts)
             ELSE <<Tri(Normalized(n), a, b, c)>> \o Rebuild(Tail(uniqueTris), verts)

\* A cleanMesh that counts the edges shared by 2 triangles or more.
cleanMesh_CountsSharedEdges(triangles) ==
    IF triangles = <<>>
    THEN [triangles |-> <<>>, noTriangles |-> TRUE, dupTris |-> 0, totalVertexRefs |-> 0,
          uniqueVertices |-> 0, degenerate |-> 0, dupEdges |-> 0,
          before |-> 0, after |-> 0]
    ELSE LET verts == MergeVertices(triangles, <<>>)
             indexed == IndexNonDegenerate(triangles, verts)
             uniqueTris == UniqueTris(indexed, {})
             cleaned == Rebuild(uniqueTris, verts)
         IN  [triangles |-> cleaned, noTriangles |-> FALSE,
              dupTris |-> Len(indexed) - Len(uniqueTris),
              totalVertexRefs |-> Len(triangles) * 3,
              uniqueVertices |-> Len(verts),
              degenerate |-> Len(triangles) - Len(indexed),
              dupEdges |-> Cardinality({k \in EdgeKeys(uniqueTris) :
                                           EdgeIncidence(uniqueTris, k) >= 2}),
              before |-> Len(triangles), after |-> Len(cleaned)]

\* cleanMesh(triangles, out): the list left in triangles and the figures
\* written to the report.
cleanMesh(triangles) ==
    IF triangles = <<>>
    THEN [triangles |-> <<>>, noTriangles |-> TRUE, dupTris |-> 0, totalVertexRefs |-> 0,
          uniqueVertices |-> 0, degenerate |-> 0, dupEdges |-> 0,
          before |-> 0, after |-> 0]
    ELSE LET verts == MergeVertices(triangles, <<>>)
             indexed == IndexNonDegenerate(triangles, verts)
             uniqueTris == UniqueTris(indexed, {})
             cleaned == Rebuild(uniqueTris, verts)
         IN  [triangles |-> cleaned, noTriangles |-> FALSE,
              dupTris |-> Len(indexed) - Len(uniqueTris),
              totalVertexRefs |-> Len(triangles) * 3,
              uniqueVertices |-> Len(verts),
              degenerate |-> Len(triangles) - Len(indexed),
              dupEdges |-> Cardinality({k \in EdgeKeys(uniqueTris) :
                                           EdgeIncidence(uniqueTris, k) > 2}),
              before |-> Len(triangles), after |-> Len(cleaned)]

--------------------------------------------------------------------------
(* rayIntersect and computeFluidMesh *)

RMul(a, b) == Rat(a.num * b.num, a.den * b.den)

RInv(a) == Rat(a.den, a.num)

\* The dot product of two vectors.
Dot(a, b) == Rat(a.x * b.x + a.y * b.y + a.z * b.z, a.w * b.w)

Miss == [hit |-> FALSE, t |-> Rat(0, 1)]

\* const float eps = 1e-6f
eps == Rat(1, 1000000)

\* r > eps, that is r.num * eps.den > r.den, without the product.
AboveEps(r) == r.num > 0 /\ r.den \div eps.den < r.num

\* a > -eps && a < eps, that is |a.num| * eps.den < a.den.
WithinEps(a) == (a.den - 1) \div eps.den >= Abs(a.num)

\* Tests on u and v only: a triangle behind the origin is reported too.
RayTests_NoDistanceTest(u, v, tt) ==
    IF u.num < 0 \/ u.num > u.den THEN Miss
    ELSE IF v.num < 0 \/ RLess(Rat(1, 1), RAdd(u, v)) THEN Miss
    ELSE [hit |-> TRUE, t |-> tt]

\* The u, v and distance tests of rayIntersect, and what it returns.
RayTests(u, v, tt) ==
    IF u.num < 0 \/ u.num > u.den THEN Miss
    ELSE IF v.num < 0 \/ RLess(Rat(1, 1), RAdd(u, v)) THEN Miss
    ELSE IF ~AboveEps(tt) THEN Miss
    ELSE [hit |-> TRUE, t |-> tt]

\* With a = e1.h: a miss if a is within eps of zero, else the tests on
\* u = f (s.h), v = f (rd.q) and tt = f (e2.q) for f = 1/a.
RayScaled(a, sh, rdq, e2q) ==
    IF WithinEps(a) THEN Miss
    ELSE After(<<sh, rdq, e2q>>,
               RayTests(RMul(RInv(a), sh), RMul(RInv(a), rdq), RMul(RInv(a), e2q)))

\* With h = rd x e2 and q = s x e1.
RayCrossed(e1, e2, s, rd, h, q) ==
    After(<<h, q>>, RayScaled(Dot(e1, h), Dot(s, h), Dot(rd, q), Dot(e2, q)))

\* With e1 = v1 - v0, e2 = v2 - v0 and s = ro - v0.
RayEdges(e1, e2, s, rd) ==
    After(<<e1, e2, s, rd>>, RayCrossed(e1, e2, s, rd, Cross(rd, e2), Cross(s, e1)))

RayTriangle(t, ro, rd) == RayEdges(VSub(t.v1, t.v0), VSub(t.v2, t.v0), VSub(ro, t.v0), rd)

\* rayIntersect(triIndex, ro, rd, t_out): whether it returns true, and t_out.
rayIntersect(triIndex, ro, rd) == RayTriangle(getTriangle(triIndex), ro, rd)

\* sqrt(n.n) for the direction n of a facet normal (0 for the zero vector).
\* The classifier is run on meshes whose facet normals have rational length.
Length(n) ==
    LET n2 == n.x * n.x + n.y * n.y + n.z * n.z
    IN  CHOOSE l \in 0..n2 : l * l = n2

\* The unit vector tri.normal that getTriangle stores, as a vector.
UnitNormal(n) == IF IsZero(n) THEN Zero3 ELSE Vec(n.x, n.y, n.z, Length(n))

\* v + c * n for a point v, a rational c and a vector n.
VAddScaled(v, c, n) == VAdd(v, Vec(c.num * n.x, c.num * n.y, c.num * n.z, c.den * n.w))

\* The ray from the point c moved by originOffset along rayDir.
RayAlong(c, rayDir, originOffset) ==
    [rayOrig |-> VAddScaled(c, originOffset, rayDir), rayDir |-> rayDir]

\* A ray cast from the facet's centroid against its normal.
RayOf_Inward(tri, originOffset) ==
    RayAlong(VDiv(VAdd(VAdd(tri.v0, tri.v1), tri.v2), 3), VNeg(UnitNormal(tri.normal)),
             originOffset)

RayOf(tri, originOffset) ==
    RayAlong(VDiv(VAdd(VAdd(tri.v0, tri.v1), tri.v2), 3), UnitNormal(tri.normal),
             originOffset)

\* The ray of facet i: from its centroid moved by originOffset along the
\* normal, in the direction of the normal.
Ray(i, originOffset) == RayOf(getTriangle(i), originOffset)

\* The (t, k) pairs of the facets k in K that the ray hits at t > tMin.
HitsAmong(K, ray, tMin) ==
    After(ray,
          {h \in {[t |-> rayIntersect(k, ray.rayOrig, ray.rayDir), k |-> k] : k \in K} :
              h.t.hit /\ RLess(tMin, h.t.t)})

\* The hits of the ray of facet i with facet i itself among the targets.
RayHits_WithSelf(i, originOffset, tMin) ==
    HitsAmong(0..(Len(indexedTriangles_) - 1), Ray(i, originOffset), tMin)

\* hits: the (t, k) pairs of the facets k # i that the ray of facet i hits
\* at a distance t > tMin, as a set.
RayHits(i, originOffset, tMin) ==
    HitsAmong((0..(Len(indexedTriangles_) - 1)) \ {i}, Ray(i, originOffset), tMin)

HitLess(g, h) == RLess(g.t.t, h.t.t) \/ (g.t.t = h.t.t /\ g.k < h.k)

\* std::sort(hits): ascending by distance, then by facet index.
SortHits(S) ==
    [i \in 1..Cardinality(S) |->
        (CHOOSE g \in S : Cardinality({h \in S : HitLess(h, g)}) = i - 1).t.t]

\* A count that compares each distance with the one just before it.
RECURSIVE CountDistinct_FromPrevious(_, _, _, _)
CountDistinct_FromPrevious(ts, counted, lastT, tEps) ==
    IF ts = <<>> THEN 0
    ELSE IF ~counted \/ RLess(tEps, RSub(Head(ts), lastT))
         THEN 1 + CountDistinct_FromPrevious(Tail(ts), TRUE, Head(ts), tEps)
         ELSE CountDistinct_FromPrevious(Tail(ts), TRUE, Head(ts), tEps)

\* distinctHits over the sorted distances from position i on; counted says
\* whether lastT holds a counted distance (it starts at -1e30, below every
\* distance by more than tEps).
RECURSIVE CountDistinct(_, _, _, _)
CountDistinct(ts, counted, lastT, tEps) ==
    IF ts = <<>> THEN 0
    ELSE IF ~counted \/ RLess(tEps, RSub(Head(ts), lastT))
         THEN 1 + CountDistinct(Tail(ts), TRUE, Head(ts), tEps)
         ELSE CountDistinct(Tail(ts), counted, lastT, tEps)

distinctHits(i, originOffset, tMin, tEps) ==
    CountDistinct(SortHits(RayHits(i, originOffset, tMin)), FALSE, Rat(0, 1), tEps)

\* Whether facet i is pushed to evenHitTriangles.
NonzeroEven(n) == n > 0 /\ n % 2 = 0

EvenHit(i, originOffset, tMin, tEps) ==
    NonzeroEven(distinctHits(i, originOffset, tMin, tEps))

\* evenHitTriangles: the facets i = 0, 1, ... pushed by the loop, in order.
evenHitTriangles(originOffset, tMin, tEps) ==
    SelectSeq([i \in 1..Len(indexedTriangles_) |-> i - 1],
              LAMBDA i : EvenHit(i, originOffset, tMin, tEps))

\* The cap flip: v1 and v2 swapped and the normal negated from position n + 1 on.
FlipCaps(tris, n) ==
    [i \in 1..Len(tris) |->
        IF i <= n THEN tris[i]
        ELSE Tri(VNeg(tris[i].normal), tris[i].v0, tris[i].v2, tris[i].v1)]

\* What computeFluidMesh does with its subset: addCaps, the flip, cleanMesh.
CapFlipClean(subset) == cleanMesh(FlipCaps(addCaps(subset), Len(subset)))

\* computeFluidMesh: the subset it selects and what cleanMesh leaves in outFluid.
FluidOf(even) == [evenHitTriangles |-> even] @@ CapFlipClean(even)

computeFluidMesh(originOffset, tMin, tEps) ==
    FluidOf(evenHitTriangles(originOffset, tMin, tEps))

--------------------------------------------------------------------------
(* The ASCII serializer: writeOneFacet and the three writers, and the      *)
(* ASCII branch of read.  A number of the file is its text: a sign, the    *)
(* significant decimal digits and a decimal exponent.                      *)

RECURSIVE Pow10(_)
Pow10(k) == IF k = 0 THEN 1 ELSE 10 * Pow10(k - 1)

\* The significant digits an ostream keeps by default (precision()).
Precision == 6

\* num/den > 0 scaled into [10^(Precision-1), 10^Precision) and rounded to
\* an integer, with the decimal exponent of the scaling.
RECURSIVE ScaleToPrecision(_, _, _)
ScaleToPrecision(num, den, e) ==
    IF num < den * Pow10(Precision - 1) THEN ScaleToPrecision(num * 10, den, e - 1)
    ELSE IF num >= den * Pow10(Precision) THEN ScaleToPrecision(num, den * 10, e + 1)
    ELSE [mant |-> (2 * num + den) \div (2 * den), exp |-> e]

\* Trailing zeros are not printed.
RECURSIVE StripZeros(_)
StripZeros(d) ==
    IF d.mant % 10 = 0 THEN StripZeros([mant |-> d.mant \div 10, exp |-> d.exp + 1]) ELSE d

\* operator<<(float) at the default precision: the text of r.
FormatFloat(r) ==
    IF r.num = 0 THEN [neg |-> FALSE, mant |-> 0, exp |-> 0]
    ELSE StripZeros(ScaleToPrecision(Abs(r.num), r.den, 0)) @@ [neg |-> r.num < 0]

\* sscanf %f: the value of a number's text.
ParseFloat(d) ==
    LET s == IF d.neg THEN -1 ELSE 1
    IN  IF d.exp >= 0 THEN Rat(s * d.mant * Pow10(d.exp), 1)
        ELSE Rat(s * d.mant, Pow10(-d.exp))

\* The three numbers of a "vertex" or "facet normal" line.
FormatVec(v) ==
    [x |-> FormatFloat(Rat(v.x, v.w)), y |-> FormatFloat(Rat(v.y, v.w)),
     z |-> FormatFloat(Rat(v.z, v.w))]

\* The vector with the three given rational coordinates.
VecOf(x, y, z) ==
    Vec(x.num * y.den * z.den, y.num * x.den * z.den, z.num * x.den * y.den,
        x.den * y.den * z.den)

ParseVec(l) == VecOf(ParseFloat(l.x), ParseFloat(l.y), ParseFloat(l.z))

\* writeOneFacet(f, t): the facet's normal line and three vertex lines.
writeOneFacet(t) ==
    [normal |-> FormatVec(t.normal), v0 |-> FormatVec(t.v0), v1 |-> FormatVec(t.v1),
     v2 |-> FormatVec(t.v2)]

\* writeAsciiStlFromTriangles(path, triangles): the facets of the file.
writeAsciiStlFromTriangles(triangles) ==
    [i \in 1..Len(triangles) |-> writeOneFacet(triangles[i])]

\* writeAsciiStl(path): the facets of the file, one per indexed triangle.
writeAsciiStl ==
    [i \in 1..Len(indexedTriangles_) |-> writeOneFacet(getTriangle(i - 1))]

\* writeAsciiStl(path, onlyIndices): the facets of the file; an index past
\* the end is passed over.
RECURSIVE writeAsciiStlOnly(_)
writeAsciiStlOnly(onlyIndices) ==
    IF onlyIndices = <<>> THEN <<>>
    ELSE IF Head(onlyIndices) < Len(indexedTriangles_)
         THEN <<writeOneFacet(getTriangle(Head(onlyIndices)))>>
                  \o writeAsciiStlOnly(Tail(onlyIndices))
         ELSE writeAsciiStlOnly(Tail(onlyIndices))

\* The ASCII branch of read on a file of well-formed facets: the triangles
\* it collects, and its return value.
readAscii(file) ==
    LET tris == [i \in 1..Len(file) |->
                    Tri(ParseVec(file[i].normal), ParseVec(file[i].v0),
                        ParseVec(file[i].v1), ParseVec(file[i].v2))]
    IN  [triangles |-> tris, ret |-> (tris # <<>>)]

--------------------------------------------------------------------------
(* Inputs *)

\* The largest subset handed to addCaps.
MaxSubset == 4

\* The longest triangle list handed to cleanMesh.
MaxTris == 3

\* A raw facet as a parser hands it over: the file's normal and three corners.
Facet(a, b, c) == Tri(FacetNormal(a, b, c), a, b, c)

\* A tetrahedron, wound outward.
Tetrahedron ==
    LET a == P(0, 0, 0)  b == P(2, 0, 0)  c == P(0, 1, 0)  d == P(0, 0, 1)
    IN  <<Facet(a, c, b), Facet(a, b, d), Facet(a, d, c), Facet(b, c, d)>>

\* A triangular bipyramid, wound outward.
Bipyramid ==
    LET t == P(0, 0, 1)  u == P(0, 0, -1)
        e1 == P(1, 0, 0)  e2 == P(0, 1, 0)  e3 == P(-1, -1, 0)
    IN  <<Facet(t, e1, e2), Facet(t, e2, e3), Facet(t, e3, e1),
          Facet(u, e2, e1), Facet(u, e3, e2), Facet(u, e1, e3)>>

\* An octahedron, wound outward.
Octahedron ==
    LET t == P(0, 0, 1)  u == P(0, 0, -1)
        e1 == P(2, 0, 0)  e2 == P(0, 1, 0)  e3 == P(-2, 0, 0)  e4 == P(0, -1, 0)
    IN  <<Facet(t, e1, e2), Facet(t, e2, e3), Facet(t, e3, e4), Facet(t, e4, e1),
          Facet(u, e2, e1), Facet(u, e3, e2), Facet(u, e4, e3), Facet(u, e1, e4)>>

ClosedSolids == {Tetrahedron, Bipyramid, Octahedron}

\* The same facets listed from facet k + 1 on, each starting at its corner
\* r + 1: the file order decides how removeDuplicateVertices numbers the vertices.
Reordered(m, k, r) ==
    [i \in 1..Len(m) |->
        LET f == m[((i + k - 1) % Len(m)) + 1]
            vs == <<f.v0, f.v1, f.v2>>
        IN  Tri(f.normal, vs[(r % 3) + 1], vs[((r + 1) % 3) + 1], vs[((r + 2) % 3) + 1])]

SolidFiles == {Reordered(m, k, r) : m \in ClosedSolids, k \in 0..7, r \in 0..2}

RECURSIVE SortSet(_)
SortSet(S) ==
    IF S = {} THEN <<>>
    ELSE LET m == CHOOSE x \in S : \A y \in S : x <= y
         IN  <<m>> \o SortSet(S \ {m})

\* The index lists handed to addCaps: sorted, unique, valid, at most MaxSubset long.
Subsets ==
    {SortSet(S) : S \in {T \in SUBSET (0..(Len(indexedTriangles_) - 1)) :
                            Cardinality(T) \in 1..MaxSubset}}

--------------------------------------------------------------------------
(* The capper's specification: a reader loads a closed solid, builds the   *)
(* indexed mesh and caps subsets of it.                                    *)

New == [op |-> "new"]

Init ==
    /\ triangles_ = <<>>
    /\ vertices_ = <<>>
    /\ indexedTriangles_ = <<>>
    /\ originalFacetNormals_ = <<>>
    /\ out = <<>>
    /\ call = New
    /\ tr = Idle

\* read(path) on a fresh reader, for a file that holds the facets raw.
Read(raw) ==
    /\ call.op = "new"
    /\ triangles_' = raw
    /\ call' = [op |-> "read", ret |-> (raw # <<>>)]
    /\ UNCHANGED <<vertices_, indexedTriangles_, originalFacetNormals_, out, tr>>

RemoveDuplicateVertices ==
    /\ call.op = "read"
    /\ LET r == removeDuplicateVertices(triangles_)
       IN  /\ originalFacetNormals_' = r.originalFacetNormals
           /\ vertices_' = r.vertices
           /\ indexedTriangles_' = r.indexedTriangles
           /\ triangles_' = r.triangles
    /\ call' = [op |-> "removeDuplicateVertices"]
    /\ UNCHANGED <<out, tr>>

\* An operation is applied to the mesh as removeDuplicateVertices left it: the
\* const operations read only the reader's fields and overwrite out.
Built == call.op = "removeDuplicateVertices"

\* addCaps(subset, out) on the built mesh.
AddCaps(subset) ==
    /\ Built
    /\ LET st == RunTrace(TraceBegin(subset))
       IN  /\ out' = st.outTriangles
           /\ call' = [op |-> "addCaps", subset |-> subset, capped |-> st.capped,
                       boundaryEdges |-> st.boundaryEdges]
    /\ UNCHANGED <<reader, tr>>

Next ==
    \/ \E raw \in SolidFiles : Read(raw)
    \/ RemoveDuplicateVertices
    \/ \E subset \in Subsets : AddCaps(subset)

Spec == Init /\ [][Next]_vars

--------------------------------------------------------------------------
(* Properties of the capper *)

\* The directed sides of the mesh's triangles listed in subset.
SidesOf(subset) ==
    {<<j, s>> : j \in 1..Len(subset), s \in 1..3}

SideAt(subset, js) == Sides(indexedTriangles_[subset[js[1]] + 1])[js[2]]

\* The boundary of a subset: the directed sides a -> b whose undirected edge
\* belongs to no other side of the subset.
Boundary(subset) ==
    {SideAt(subset, js) : js \in {x \in SidesOf(subset) :
        \A y \in SidesOf(subset) :
            y # x => edgeKey(SideAt(subset, y)[1], SideAt(subset, y)[2])
                       # edgeKey(SideAt(subset, x)[1], SideAt(subset, x)[2])}}

AllFacets == [i \in 1..Len(indexedTriangles_) |-> i - 1]

\* The mesh is closed, manifold and consistently wound: its triangles have
\* three distinct corners, and every side a -> b is the side of one triangle
\* only and has its reverse b -> a in exactly one triangle.
ClosedConsistent ==
    /\ indexedTriangles_ # <<>>
    /\ \A i \in 1..Len(indexedTriangles_) :
          LET id == indexedTriangles_[i]
          IN  id.v0 # id.v1 /\ id.v1 # id.v2 /\ id.v2 # id.v0
    /\ \A x \in SidesOf(AllFacets) :
          /\ \A y \in SidesOf(AllFacets) :
                SideAt(AllFacets, y) = SideAt(AllFacets, x) => y = x
          /\ Cardinality({y \in SidesOf(AllFacets) :
                SideAt(AllFacets, y) = <<SideAt(AllFacets, x)[2], SideAt(AllFacets, x)[1]>>}) = 1

\* The triangles addCaps appended after the subset's own.
Caps == SubSeq(out, Len(call.subset) + 1, Len(out))

\* Cap j lies on the boundary edge a -> b: its corners v1, v2 are a and b.
CapOn(cap, e) ==
    {cap.v1, cap.v2} = {vertices_[e[1] + 1], vertices_[e[2] + 1]}

\* C4: after addCaps on a closed, consistently wound mesh, the caps and the
\* boundary edges of the subset correspond one to one: every boundary edge
\* carries exactly one cap and every cap lies on a boundary edge.
C4_CapsMatchBoundary ==
    (call.op = "addCaps" /\ ClosedConsistent) =>
        /\ \A e \in Boundary(call.subset) :
              Cardinality({j \in 1..Len(Caps) : CapOn(Caps[j], e)}) = 1
        /\ \A j \in 1..Len(Caps) : \E e \in Boundary(call.subset) : CapOn(Caps[j], e)

\* The undirected edges of a triangle list, by position.
ListEdges(ts) ==
    UNION {{{ts[i].v0, ts[i].v1}, {ts[i].v1, ts[i].v2}, {ts[i].v2, ts[i].v0}} :
              i \in 1..Len(ts)}

\* How many sides of the list's triangles lie on edge e.
ListIncidence(ts, e) ==
    Cardinality({<<i, s>> \in (1..Len(ts)) \X (1..3) :
        <<{ts[i].v0, ts[i].v1}, {ts[i].v1, ts[i].v2}, {ts[i].v2, ts[i].v0}>>[s] = e})

\* A triangle list is watertight: every edge is shared by exactly two
\* triangles, no two triangles have the same corners, none is degenerate.
WatertightList(ts) ==
    /\ \A e \in ListEdges(ts) : ListIncidence(ts, e) = 2
    /\ \A i, j \in 1..Len(ts) :
          i # j => {ts[i].v0, ts[i].v1, ts[i].v2} # {ts[j].v0, ts[j].v1, ts[j].v2}
    /\ \A i \in 1..Len(ts) :
          /\ Cardinality({ts[i].v0, ts[i].v1, ts[i].v2}) = 3
          /\ ~ZeroArea(ts[i].v0, ts[i].v1, ts[i].v2)

LoopCentroid(loop) == VDiv(SumVertices(loop), Len(loop))

\* No capped loop has its centroid on a mesh vertex or in line with one of
\* its sides (a zero-area cap).
CapsInGeneralPosition ==
    \A n \in 1..Len(call.capped) :
        LET loop == call.capped[n]
            C == LoopCentroid(loop)
        IN  Len(loop) >= 3 =>
              /\ \A i \in 1..Len(vertices_) : vertices_[i] # C
              /\ \A i \in 1..Len(loop) :
                    ~ZeroArea(C, vertices_[loop[i] + 1],
                              vertices_[loop[(i % Len(loop)) + 1] + 1])

\* C2: for a closed, manifold, consistently wound mesh and a nonempty subset
\* of it whose caps are in general position, the list that the cap flip and
\* cleanMesh make of addCaps's result is watertight.
C2_FluidWatertight ==
    (call.op = "addCaps" /\ ClosedConsistent /\ call.subset # <<>>
        /\ CapsInGeneralPosition) =>
        WatertightList(cleanMesh(FlipCaps(out, Len(call.subset))).triangles)

\* C3: for a subset of one non-degenerate triangle, addCaps returns that
\* triangle followed by exactly 3 caps, and every edge of the returned list
\* is shared by exactly two of its triangles.
C3_SingleTriangleCapped ==
    (call.op = "addCaps" /\ Len(call.subset) = 1
        /\ ~IsZero(getTriangle(call.subset[1]).normal)) =>
        /\ Len(out) = 4
        /\ out[1] = getTriangle(call.subset[1])
        /\ \A e \in ListEdges(out) : ListIncidence(out, e) = 2

\* Witness of C3: one triangle that has vertex 0 as a corner was capped.
C3_Witness ==
    /\ call.op = "addCaps" /\ Len(call.subset) = 1 /\ Len(out) = 4
    /\ indexedTriangles_[call.subset[1] + 1].v1 = 0

--------------------------------------------------------------------------
(* The trace loop of addCaps, step by step: one action per evaluation of   *)
(* the head of the for (;;) loop and of the while loop.                    *)

\* A solid with its first facet wound the other way: its subsets have
\* boundaries with dead ends and vertices with several outgoing edges.
Miswound(m) ==
    [i \in 1..Len(m) |-> IF i = 1 THEN Tri(m[i].normal, m[i].v0, m[i].v2, m[i].v1) ELSE m[i]]

\* A solid followed by a facet with a repeated corner.
WithNeedle(m) == Append(m, Tri(m[1].normal, m[1].v0, m[1].v0, m[1].v1))

\* The last file numbers an equator vertex of the bipyramid 0.
TraceFiles ==
    {Reordered(m, k, 0) :
        m \in {Tetrahedron, Bipyramid, Miswound(Tetrahedron), Miswound(Bipyramid),
               WithNeedle(Tetrahedron)},
        k \in 0..2}
      \cup {Reordered(Bipyramid, 5, 2)}

AddCapsBegin(subset) ==
    /\ Built
    /\ tr.pc = "idle"
    /\ tr' = TraceBegin(subset) @@ [subset |-> subset]
    /\ UNCHANGED <<reader, out, call>>

TraceOuter ==
    /\ tr.pc = "outer"
    /\ tr' = OuterStep(tr)
    /\ UNCHANGED <<reader, out, call>>

TraceInner ==
    /\ tr.pc = "inner"
    /\ tr' = InnerStep(tr)
    /\ UNCHANGED <<reader, out, call>>

AddCapsReturn ==
    /\ tr.pc = "done"
    /\ out' = tr.outTriangles
    /\ call' = [op |-> "addCaps", subset |-> tr.subset, capped |-> tr.capped,
                boundaryEdges |-> tr.boundaryEdges]
    /\ tr' = Idle
    /\ UNCHANGED reader

NextTrace ==
    \/ \E raw \in TraceFiles : Read(raw)
    \/ RemoveDuplicateVertices
    \/ \E subset \in Subsets : AddCapsBegin(subset)
    \/ TraceOuter
    \/ TraceInner
    \/ AddCapsReturn

SpecTrace == Init /\ [][NextTrace]_vars

Tracing == tr.pc \in {"outer", "inner"}

BoundaryPairs(st) == {<<st.boundaryEdges[i].from, st.boundaryEdges[i].to>> :
                         i \in 1..Len(st.boundaryEdges)}

\* A step of the trace consumes an edge: used grows by one boundary edge
\* that was not in it.
Consumes ==
    /\ tr.used \subseteq tr'.used
    /\ Cardinality(tr'.used) = Cardinality(tr.used) + 1
    /\ tr'.used \subseteq BoundaryPairs(tr)

\* How many steps the trace can still take: twice the number of unused
\* boundary edges, plus 2 inside the while loop, 1 at the head of the
\* for (;;) loop and 0 once addCaps is past its loops.
StepsLeft(st) ==
    IF st.pc = "done" THEN 0
    ELSE 2 * (Len(st.boundaryEdges) - Cardinality(st.used))
           + (IF st.pc = "inner" THEN 2 ELSE 1)

\* C5: addCaps terminates for every mesh and subset (dead ends, self-touching
\* loops and vertices with several outgoing boundary edges included): each
\* step of the inner trace marks an unused boundary edge as used or ends the
\* trace, each outer iteration consumes an unused boundary edge or ends
\* addCaps, and every step lowers the bound StepsLeft, which is never negative.
C5_AddCapsTerminates ==
    [][Tracing =>
        /\ (tr.pc = "inner" /\ tr'.pc = "inner") => Consumes
        /\ (tr.pc = "inner") => tr'.pc \in {"inner", "outer"}
        /\ (tr.pc = "outer") => (tr'.pc = "done" \/ (tr'.pc = "inner" /\ Consumes))
        /\ StepsLeft(tr') >= 0
        /\ StepsLeft(tr') < StepsLeft(tr)]_vars

\* Witness of C5: inside the while loop, after a self-touching path was split
\* and an earlier path of the same call was given up at a dead end with
\* fewer than 3 vertices.
C5_Witness ==
    /\ tr.pc = "inner"
    /\ tr.splits >= 1
    /\ \E n \in 1..Len(tr.capped) : Len(tr.capped[n]) < 3


--------------------------------------------------------------------------
(* The cleaner's specification: a caller hands cleanMesh a triangle list   *)
(* and hands the cleaned list to it again.                                 *)

\* The triangles a caller's list is drawn from: one triangle in three corner
\* orders, two more on its edge AD and one more on its edge AB, a collinear
\* triple in two orders, and triangles that repeat a corner at each position.
CleanPool ==
    LET A == P(0, 0, 0)  B == P(1, 0, 0)  C == P(2, 0, 0)
        D == P(0, 1, 0)  E == P(0, 0, 1)
        up == Vec(0, 0, 1, 1)
    IN  {Facet(A, B, D), Facet(B, D, A), Facet(A, D, B), Facet(A, D, E),
         Facet(D, A, C), Facet(A, B, E), Tri(up, A, B, C), Tri(up, C, B, A),
         Tri(up, A, A, B), Tri(up, A, B, B), Tri(up, B, A, B), Tri(up, D, D, D)}

CleanLists == UNION {[1..n -> CleanPool] : n \in 0..MaxTris}

\* The caller builds a list.
CallerList(T) ==
    /\ call.op = "new"
    /\ out' = T
    /\ call' = [op |-> "list"]
    /\ UNCHANGED <<reader, tr>>

\* cleanMesh(out, report): the list is replaced by the cleaned one.
CleanMesh ==
    /\ call.op \in {"list", "cleanMesh"}
    /\ call.op = "cleanMesh" => call.pass < 2
    /\ LET r == cleanMesh(out)
       IN  /\ out' = r.triangles
           /\ call' = [op |-> "cleanMesh", input |-> out, report |-> r,
                       first |-> IF call.op = "list" THEN out ELSE call.first,
                       pass |-> IF call.op = "list" THEN 1 ELSE call.pass + 1]
    /\ UNCHANGED <<reader, tr>>

NextClean ==
    \/ \E T \in CleanLists : CallerList(T)
    \/ CleanMesh

SpecClean == Init /\ [][NextClean]_vars

Cleaned == call.op = "cleanMesh"

\* The corner positions of input triangle i, as a set.
Corners(T, i) == {T[i].v0, T[i].v1, T[i].v2}

\* Input triangle i repeats a corner position.
RepeatsCorner(T, i) == Cardinality(Corners(T, i)) < 3

\* Input triangle i has the corners of an earlier input triangle.
LaterCopy(T, i) ==
    /\ ~RepeatsCorner(T, i)
    /\ \E j \in 1..(i - 1) : Corners(T, j) = Corners(T, i)

\* Input triangle i has three distinct corners on one line.
Collinear(T, i) ==
    /\ ~RepeatsCorner(T, i)
    /\ IsZero(Cross(VSub(T[i].v1, T[i].v0), VSub(T[i].v2, T[i].v0)))

CornerList(T) == [i \in 1..Len(T) |-> <<T[i].v0, T[i].v1, T[i].v2>>]

\* The members of T at the positions in K, in input order.
Selected(T, K) == [j \in 1..Cardinality(K) |-> T[SortSet(K)[j]]]

\* C6 as stated: of the input triangles with the same three corners the first
\* one, and only it, is in the output, and the duplicate count is the number
\* of later ones.
C6_FirstOfEachKept ==
    Cleaned =>
        LET T == call.input
            K == {i \in 1..Len(T) : ~RepeatsCorner(T, i) /\ ~LaterCopy(T, i)}
        IN  /\ CornerList(out) = CornerList(Selected(T, K))
            /\ call.report.dupTris = Cardinality({i \in 1..Len(T) : LaterCopy(T, i)})

\* C6, amended: of the input triangles with the same three corners the later
\* ones are removed and counted as duplicates, and the first one is in the
\* output exactly when its corners are not collinear.
C6_FirstOfEachKeptUnlessCollinear ==
    Cleaned =>
        LET T == call.input
            K == {i \in 1..Len(T) :
                    ~RepeatsCorner(T, i) /\ ~LaterCopy(T, i) /\ ~Collinear(T, i)}
        IN  /\ CornerList(out) = CornerList(Selected(T, K))
            /\ call.report.dupTris = Cardinality({i \in 1..Len(T) : LaterCopy(T, i)})

\* Two copies of a triangle in different corner orders went in, with another
\* triangle after them: the first copy and the other triangle came out.
C6_Witness ==
    /\ Cleaned
    /\ Len(call.input) = 3
    /\ LaterCopy(call.input, 2)
    /\ call.input[2] # call.input[1]
    /\ ~LaterCopy(call.input, 3) /\ ~RepeatsCorner(call.input, 3)
    /\ ~Collinear(call.input, 1) /\ ~Collinear(call.input, 3)
    /\ call.report.dupTris = 1
    /\ Len(out) = 2

\* C7: cleanMesh removes every input triangle that repeats a corner position
\* and reports their number as the degenerate count; no output triangle
\* repeats a corner.
C7_RepeatedCornerRemoved ==
    Cleaned =>
        LET T == call.input
        IN  /\ call.report.degenerate = Cardinality({i \in 1..Len(T) : RepeatsCorner(T, i)})
            /\ \A j \in 1..Len(out) : ~RepeatsCorner(out, j)
            /\ \A i \in 1..Len(T) :
                  RepeatsCorner(T, i) =>
                      \A j \in 1..Len(out) : CornerList(out)[j] # CornerList(T)[i]
            /\ (Len(T) = 1 /\ T[1].v0 = T[1].v1) =>
                  (out = <<>> /\ call.report.degenerate = 1)

\* A list with a v1 == v2 triangle between two sound ones was cleaned.
C7_Witness ==
    /\ Cleaned
    /\ Len(call.input) = 3
    /\ call.input[2].v1 = call.input[2].v2
    /\ call.input[2].v0 # call.input[2].v1
    /\ call.report.degenerate = 1
    /\ Len(out) = 2

\* C8: cleaning a cleaned list leaves the same triangles in the same order
\* and removes nothing: 0 duplicates, 0 degenerates, before = after.
C8_CleanTwiceSame ==
    (Cleaned /\ call.pass = 2) =>
        /\ out = call.input
        /\ call.report.dupTris = 0
        /\ call.report.degenerate = 0
        /\ call.report.before = call.report.after

\* The second pass ran on the two triangles that the first pass had left of
\* three.
C8_Witness ==
    /\ Cleaned
    /\ call.pass = 2
    /\ Len(call.first) = 3
    /\ Len(call.input) = 2
    /\ Len(out) = 2


--------------------------------------------------------------------------
(* The auditor's specification: a reader loads a file, builds the indexed  *)
(* mesh and reports on it.                                                 *)

\* The file without facet i.
Dropped(m, i) == SubSeq(m, 1, i - 1) \o SubSeq(m, i + 1, Len(m))

\* The file with facet i listed once more, from its second corner.
Doubled(m, i) == Append(m, Tri(m[i].normal, m[i].v1, m[i].v2, m[i].v0))

\* The file with every facet's winding reversed.
ReverseAll(m) == [i \in 1..Len(m) |-> Tri(VNeg(m[i].normal), m[i].v0, m[i].v2, m[i].v1)]

\* The one facet (1,0,0), (0,1,0), (0,0,1).
SingleTriangle == <<Facet(P(1, 0, 0), P(0, 1, 0), P(0, 0, 1))>>

\* Two copies of one triangle, wound against each other.
Pillow ==
    LET a == P(0, 0, 0)  b == P(1, 0, 0)  c == P(0, 1, 0)
    IN  <<Facet(a, b, c), Facet(a, c, b)>>

\* Two tetrahedra that share the edge ab and nothing else.
TwoTetrahedra ==
    LET a == P(0, 0, 0)  b == P(2, 0, 0)
        c == P(0, 1, 0)  d == P(0, 0, 1)
        e == P(0, -1, 0)  f == P(0, 0, -1)
    IN  <<Facet(a, c, b), Facet(a, b, d), Facet(a, d, c), Facet(b, c, d),
          Facet(a, e, b), Facet(a, b, f), Facet(a, f, e), Facet(b, e, f)>>

\* The tetrahedron with the facet abd split at the midpoint m of ab, and the
\* zero-area facet abm between the split facets and acb.
SliverTetrahedron ==
    LET a == P(0, 0, 0)  b == P(2, 0, 0)  c == P(0, 1, 0)  d == P(0, 0, 1)
        m == P(1, 0, 0)
    IN  <<Facet(a, c, b), Facet(a, m, d), Facet(m, b, d), Facet(a, d, c),
          Facet(b, c, d), Tri(Vec(0, 0, 1, 1), a, b, m)>>

AuditSolids == ClosedSolids \cup {SingleTriangle, Pillow, TwoTetrahedra, SliverTetrahedron}

AuditFiles ==
    LET base == AuditSolids
                  \cup {Dropped(m, i) : m \in ClosedSolids, i \in 1..4}
                  \cup {Doubled(m, i) : m \in ClosedSolids, i \in 1..4}
                  \cup {Miswound(m) : m \in ClosedSolids}
    IN  {<<>>} \cup {Reordered(m, k, 0) : m \in base, k \in 0..2}
               \cup {ReverseAll(m) : m \in base}

\* checkWatertight(report) on the built mesh.
CheckWatertight ==
    /\ Built
    /\ call' = [op |-> "checkWatertight", ret |-> checkWatertight.watertight,
                report |-> checkWatertight]
    /\ UNCHANGED <<reader, out, tr>>

\* volume() on the built mesh.
Volume ==
    /\ Built
    /\ call' = [op |-> "volume", ret |-> volume]
    /\ UNCHANGED <<reader, out, tr>>

NextAudit ==
    \/ \E raw \in AuditFiles : Read(raw)
    \/ RemoveDuplicateVertices
    \/ CheckWatertight
    \/ Volume

SpecAudit == Init /\ [][NextAudit]_vars

\* The vertex indices of indexed triangle i, as a set.
IndexSet(i) ==
    {indexedTriangles_[i].v0, indexedTriangles_[i].v1, indexedTriangles_[i].v2}

\* No two triangles have the same three vertex indices.
NoDuplicateTriangle ==
    \A i, j \in 1..Len(indexedTriangles_) : IndexSet(i) = IndexSet(j) => i = j

\* No triangle has its three corners on one line (or at one point).
NoDegenerateTriangle ==
    \A i \in 1..Len(indexedTriangles_) :
        LET a == vertices_[indexedTriangles_[i].v0 + 1]
            b == vertices_[indexedTriangles_[i].v1 + 1]
            c == vertices_[indexedTriangles_[i].v2 + 1]
        IN  ~IsZero(Cross(VSub(b, a), VSub(c, a)))

\* Every pair of vertices joined by a triangle is joined by exactly 2.
EveryEdgeOnTwoTriangles ==
    \A i \in 1..Len(indexedTriangles_) :
        \A e \in {x \in SUBSET IndexSet(i) : Cardinality(x) = 2} :
            Cardinality({j \in 1..Len(indexedTriangles_) : e \subseteq IndexSet(j)}) = 2

\* C9: on a nonempty indexed mesh checkWatertight returns true exactly when
\* no triangle is a duplicate, none is degenerate, and every edge is on
\* exactly 2 triangles.
C9_WatertightIff ==
    (call.op = "checkWatertight" /\ indexedTriangles_ # <<>>) =>
        (call.ret <=> (NoDuplicateTriangle /\ NoDegenerateTriangle
                          /\ EveryEdgeOnTwoTriangles))

\* checkWatertight returned true for a mesh of 8 triangles.
C9_Witness ==
    /\ call.op = "checkWatertight"
    /\ Len(indexedTriangles_) = 8
    /\ call.ret

\* The facets of the built mesh, as getTriangle hands them out.
MeshFacets == [i \in 1..Len(indexedTriangles_) |-> getTriangle(i - 1)]

\* The determinant of the corners of raw facet t.
Det(t) == Dot(Cross(t.v0, t.v1), t.v2)

RECURSIVE SumDet(_)
SumDet(T) == IF T = <<>> THEN Rat(0, 1) ELSE RAdd(Det(Head(T)), SumDet(Tail(T)))

SixthOfAbs(r) == Rat(Abs(r.num), r.den * 6)

\* What volume() returns for the mesh built from the file raw.
VolumeOfFile(raw) ==
    LET r == removeDuplicateVertices(raw)
        sum == SumTriples(r.vertices, r.indexedTriangles)
    IN  IF sum.num < 0 THEN Rat(-sum.num, sum.den) ELSE sum

\* C10: volume() is |sum of a.(b x c)| / 6 over the triangles: it is not
\* negative, it is what volume() returns for the file with every winding
\* reversed, and it is 1/6 for the facet (1,0,0), (0,1,0), (0,0,1).
C10_VolumeAbsSixth ==
    call.op = "volume" =>
        /\ call.ret = SixthOfAbs(SumDet(MeshFacets))
        /\ call.ret.num >= 0 /\ call.ret.den > 0
        /\ call.ret = VolumeOfFile(ReverseAll(MeshFacets))
        /\ CornerList(MeshFacets) = CornerList(SingleTriangle)
              => call.ret = [num |-> 1, den |-> 6]

\* volume() returned a positive figure for a solid whose signed sum is
\* negative.
C10_Witness ==
    /\ call.op = "volume"
    /\ SumDet(MeshFacets).num < 0
    /\ Len(MeshFacets) = 6
    /\ call.ret.num > 0


--------------------------------------------------------------------------
(* The classifier's specification: a reader loads a file, builds the       *)
(* indexed mesh and computes the fluid mesh.                               *)

\* The greatest height of a plate.
MaxHeight == 3

\* A triangular plate at height z, wound to face up or down.
Plate(z, up) ==
    IF up THEN Facet(P(0, 0, z), P(3, 0, z), P(0, 3, z))
    ELSE Facet(P(0, 0, z), P(0, 3, z), P(3, 0, z))

\* The plates of a stack: at each height none, one facing up or one facing
\* down, listed from the lowest.
RECURSIVE Stack(_, _)
Stack(f, z) ==
    IF z > MaxHeight THEN <<>>
    ELSE (IF f[z] = "none" THEN <<>> ELSE <<Plate(z, f[z] = "up")>>) \o Stack(f, z + 1)

PlateFiles == {Stack(f, 0) : f \in [0..MaxHeight -> {"none", "up", "down"}]} \ {<<>>}

\* Two wide plates at heights 1 and 2, facing up, and below them, in the
\* plane z = 0, two triangles that face up and make a quadrilateral with the
\* reflex corner (1, 1, 0).
DartUnderPlates ==
    LET wide(z) == Facet(P(-1, -1, z), P(9, -1, z), P(-1, 9, z))
        o == P(0, 0, 0)  r == P(1, 1, 0)
    IN  <<wide(1), wide(2), Facet(o, P(6, 0, 0), r), Facet(o, r, P(0, 6, 0))>>

\* Plate stacks and solids whose facet normals have rational length.
FluidFiles ==
    PlateFiles \cup {Tetrahedron, Octahedron, ReverseAll(Tetrahedron), ReverseAll(Octahedron),
                     DartUnderPlates}

Offsets == {Rat(0, 1), Rat(1, 2), Rat(-1, 2)}

TMins == {Rat(0, 1), Rat(1, 1)}

TEpsilons == {Rat(0, 1), Rat(1, 1)}

\* computeFluidMesh(out, report, originOffset, tMin, tEps) on the built mesh.
FluidReturns(r, originOffset, tMin, tEps) ==
    /\ out' = r.triangles
    /\ call' = [op |-> "computeFluidMesh", originOffset |-> originOffset,
                tMin |-> tMin, tEps |-> tEps, evenHitTriangles |-> r.evenHitTriangles]

ComputeFluidMesh(originOffset, tMin, tEps) ==
    /\ Built
    /\ FluidReturns(computeFluidMesh(originOffset, tMin, tEps), originOffset, tMin, tEps)
    /\ UNCHANGED <<reader, tr>>

NextFluid ==
    \/ \E raw \in FluidFiles : Read(raw)
    \/ RemoveDuplicateVertices
    \/ \E originOffset \in Offsets, tMin \in TMins, tEps \in TEpsilons :
          ComputeFluidMesh(originOffset, tMin, tEps)

SpecFluid == Init /\ [][NextFluid]_vars

Classified == call.op = "computeFluidMesh"

\* The distance at which the ray hits facet k, if it does.
Reaches(ray, k) == rayIntersect(k, ray.rayOrig, ray.rayDir)

\* The facets other than i that the ray of facet i hits farther than tMin.
BeyondOn(i, ray) ==
    {k \in 0..(Len(indexedTriangles_) - 1) :
        k # i /\ Reaches(ray, k).hit /\ RLess(call.tMin, Reaches(ray, k).t)}

HitBeyond(i) == BeyondOn(i, Ray(i, call.originOffset))

\* The hits that are counted: the nearest one, then the nearest that lies
\* more than tEps beyond the one counted last. t[k] is the distance to hit k.
RECURSIVE Leaders(_, _, _)
Leaders(t, K, tEps) ==
    IF K = {} THEN {}
    ELSE LET m == CHOOSE k \in K : \A j \in K :
                     RLess(t[k], t[j]) \/ (t[k] = t[j] /\ k <= j)
         IN  {m} \cup Leaders(t, {k \in K \ {m} : RLess(tEps, RSub(t[k], t[m]))}, tEps)

LeadersOn(ray, K) == Leaders([k \in K |-> Reaches(ray, k).t], K, call.tEps)

DistinctOn(i, ray) == Cardinality(LeadersOn(ray, BeyondOn(i, ray)))

DistinctHitCount(i) == DistinctOn(i, Ray(i, call.originOffset))

Retained(i) == \E j \in 1..Len(call.evenHitTriangles) : call.evenHitTriangles[j] = i

ExactlyWhen(a, b) == a <=> b

\* C1: computeFluidMesh retains facet i exactly when its distinct-hit count,
\* taken over the hits on the other facets at a distance above tMin, is
\* nonzero and even.
C1_RetainedIffEvenHits ==
    Classified =>
        \A i \in 0..(Len(indexedTriangles_) - 1) :
            ExactlyWhen(Retained(i), DistinctHitCount(i) \in {2 * n : n \in 1..Len(indexedTriangles_)})

\* A facet with two distinct hits was retained, one with a single hit was
\* discarded, and one of the rays has a hit that tMin rules out.
C1_Witness ==
    /\ Classified
    /\ \E i \in 0..(Len(indexedTriangles_) - 1) : Retained(i) /\ DistinctHitCount(i) = 2
    /\ \E i \in 0..(Len(indexedTriangles_) - 1) : ~Retained(i) /\ DistinctHitCount(i) = 1
    /\ \E i, k \in 0..(Len(indexedTriangles_) - 1) :
          k # i /\ k \notin HitBeyond(i) /\ Reaches(Ray(i, call.originOffset), k).hit

--------------------------------------------------------------------------
(* Translation of a mesh *)

\* The file with every corner moved by the vector d.
Translated(m, d) ==
    [i \in 1..Len(m) |-> Tri(m[i].normal, VAdd(m[i].v0, d), VAdd(m[i].v1, d),
                             VAdd(m[i].v2, d))]

\* The offsets a mesh is moved by.
Shifts == {P(1, 0, 0), P(0, -3, 0), P(-2, 3, 5), Vec(1, 1, 1, 2)}

\* C11: for a closed, consistently oriented mesh volume() returns the value
\* it returns for the same mesh with every vertex moved by the same offset.
C11_VolumeTranslationInvariant ==
    (call.op = "volume" /\ ClosedConsistent) =>
        \A d \in Shifts : VolumeOfFile(Translated(MeshFacets, d)) = call.ret

\* volume() returned a positive figure for the closed octahedron, and the
\* octahedron moved by (-2, 3, 5) has a vertex on another lattice point.
C11_Witness ==
    /\ call.op = "volume"
    /\ ClosedConsistent
    /\ Len(indexedTriangles_) = 8
    /\ call.ret.num > 0
    /\ Translated(MeshFacets, P(-2, 3, 5))[1].v0 # MeshFacets[1].v0

--------------------------------------------------------------------------
(* The builder's specification: a reader loads a raw facet list and builds *)
(* the indexed mesh from it.                                               *)

\* The longest raw facet list of the builder's files.
MaxRaw == 2

\* The facets of the builder's files: those of the cleaner's pool, and one
\* triangle with a supplied normal against its winding, across it, and zero.
BuildPool ==
    LET A == P(0, 0, 0)  B == P(1, 0, 0)  D == P(0, 1, 0)
    IN  CleanPool \cup {Tri(Vec(0, 0, -1, 1), A, B, D), Tri(Vec(1, 0, 0, 1), A, B, D),
                        Tri(Zero3, B, A, D)}

BuildFiles == UNION {[1..n -> BuildPool] : n \in 0..MaxRaw}

\* checkRightHandWinding(out) on the built mesh.
CheckRightHandWinding ==
    /\ Built
    /\ call' = [op |-> "checkRightHandWinding", report |-> checkRightHandWinding]
    /\ UNCHANGED <<reader, out, tr>>

NextBuild ==
    \/ \E raw \in BuildFiles : Read(raw)
    \/ RemoveDuplicateVertices
    \/ CheckRightHandWinding

SpecBuild == Init /\ [][NextBuild]_vars

\* The step from the raw list to the indexed mesh.
Building == call.op = "read" /\ call'.op = "removeDuplicateVertices"

\* C12: in a mesh built by removeDuplicateVertices no triangle has the same
\* vertex index twice.
C12_NoRepeatedIndex ==
    Built =>
        \A i \in 1..Len(indexedTriangles_) :
            /\ indexedTriangles_[i].v0 # indexedTriangles_[i].v1
            /\ indexedTriangles_[i].v1 # indexedTriangles_[i].v2
            /\ indexedTriangles_[i].v2 # indexedTriangles_[i].v0

\* The corners of raw triangle i, in order.
RawCorners(raw, i) == <<raw[i].v0, raw[i].v1, raw[i].v2>>

\* The vertex indices of indexed triangle i, in order.
IndexTriple(ids, i) == <<ids[i].v0, ids[i].v1, ids[i].v2>>

CoordinateEqual(a, b) ==
    a.x * b.w = b.x * a.w /\ a.y * b.w = b.y * a.w /\ a.z * b.w = b.z * a.w

\* C13: removeDuplicateVertices leaves no two coordinate-equal vertices in
\* the table and only valid indices in the triangles; two raw corners get
\* the same index exactly when neither is below the other in Vec3's order,
\* which is irreflexive and transitive on the corners; and indexed triangle
\* i has the positions of raw triangle i.
C13_MergedByCoordinates ==
    [][Building =>
        LET raw == triangles_
            occ == (1..Len(raw)) \X (1..3)
        IN  /\ Len(indexedTriangles_') = Len(raw)
            /\ \A i, j \in 1..Len(vertices_') :
                  CoordinateEqual(vertices_'[i], vertices_'[j]) => i = j
            /\ \A o \in occ :
                  IndexTriple(indexedTriangles_', o[1])[o[2]] \in 0..(Len(vertices_') - 1)
            /\ \A o, q \in occ :
                  (IndexTriple(indexedTriangles_', o[1])[o[2]]
                      = IndexTriple(indexedTriangles_', q[1])[q[2]])
                  <=> (/\ ~Less(RawCorners(raw, o[1])[o[2]], RawCorners(raw, q[1])[q[2]])
                       /\ ~Less(RawCorners(raw, q[1])[q[2]], RawCorners(raw, o[1])[o[2]]))
            /\ \A o \in occ :
                  /\ ~Less(RawCorners(raw, o[1])[o[2]], RawCorners(raw, o[1])[o[2]])
                  /\ \A q, r \in occ :
                        (Less(RawCorners(raw, o[1])[o[2]], RawCorners(raw, q[1])[q[2]])
                           /\ Less(RawCorners(raw, q[1])[q[2]], RawCorners(raw, r[1])[r[2]]))
                        => Less(RawCorners(raw, o[1])[o[2]], RawCorners(raw, r[1])[r[2]])
            /\ \A i \in 1..Len(raw) :
                  /\ vertices_'[indexedTriangles_'[i].v0 + 1] = raw[i].v0
                  /\ vertices_'[indexedTriangles_'[i].v1 + 1] = raw[i].v1
                  /\ vertices_'[indexedTriangles_'[i].v2 + 1] = raw[i].v2]_vars

\* A mesh of two triangles that share two of their corners was built: four
\* vertices for six raw corners.
C13_Witness ==
    /\ Built
    /\ Len(indexedTriangles_) = 2
    /\ Len(vertices_) = 4
    /\ Cardinality({indexedTriangles_[1].v0, indexedTriangles_[1].v1, indexedTriangles_[1].v2}
                     \cap {indexedTriangles_[2].v0, indexedTriangles_[2].v1,
                           indexedTriangles_[2].v2}) = 2

\* C14: removeDuplicateVertices on n raw triangles leaves triangleCount() = n
\* and n retained normals, the i-th being the normal the input supplied for
\* raw triangle i.
C14_NormalsAligned ==
    [][Building =>
        /\ Len(indexedTriangles_') = Len(triangles_)
        /\ Len(originalFacetNormals_') = Len(triangles_)
        /\ \A i \in 1..Len(triangles_) :
              originalFacetNormals_'[i] = triangles_[i].normal]_vars

\* A mesh of two triangles was built whose first retained normal is not the
\* normal of the first triangle's winding.
C14_Witness ==
    /\ Built
    /\ triangleCount = 2
    /\ Len(originalFacetNormals_) = 2
    /\ originalFacetNormals_[1] # getTriangle(0).normal
    /\ ~IsZero(getTriangle(0).normal)


\* The triangles whose right-hand-rule normal has the given sign of dot
\* product with the normal retained at the same index.
WindingClass(sign) ==
    {i \in 1..Len(indexedTriangles_) :
        /\ ~IsZero(MeshFacets[i].normal)
        /\ DotSign(MeshFacets[i].normal, originalFacetNormals_[i]) = sign}

\* The triangles checkRightHandWinding passes over.
WindingSkipped ==
    {i \in 1..Len(indexedTriangles_) :
        \/ IsZero(MeshFacets[i].normal)
        \/ DotSign(MeshFacets[i].normal, originalFacetNormals_[i]) = 0}

\* C19: checkRightHandWinding puts each triangle in exactly one of the
\* classes consistent (dot product above the tolerance), opposite (below
\* minus the tolerance) and skipped (otherwise, or zero-length geometric
\* normal); the two counts it reports are the sizes of the first two
\* classes, the detail lines name the opposite triangles, and consistent
\* plus opposite never exceeds the triangle count.
C19_WindingClasses ==
    call.op = "checkRightHandWinding" =>
        /\ \A i \in 1..Len(indexedTriangles_) :
              Cardinality({c \in {WindingClass(1), WindingClass(-1), WindingSkipped} :
                              i \in c}) = 1
        /\ call.report.summary
        /\ call.report.ok = Cardinality(WindingClass(1))
        /\ call.report.wrong = Cardinality(WindingClass(-1))
        /\ Range(call.report.opposite) = {i - 1 : i \in WindingClass(-1)}
        /\ Len(call.report.opposite) = call.report.wrong
        /\ call.report.ok + call.report.wrong <= triangleCount

\* A report on two triangles with one opposite and one skipped for a
\* retained normal across the winding.
C19_Witness ==
    /\ call.op = "checkRightHandWinding"
    /\ triangleCount = 2
    /\ call.report.ok = 0
    /\ call.report.wrong = 1
    /\ \E i \in WindingSkipped : ~IsZero(MeshFacets[i].normal)

\* A report with one consistent triangle and one skipped for its zero area.
C19_WitnessZeroArea ==
    /\ call.op = "checkRightHandWinding"
    /\ call.report.ok = 1
    /\ call.report.wrong = 0
    /\ \E i \in WindingSkipped : IsZero(MeshFacets[i].normal)

--------------------------------------------------------------------------
(* The file round trip: a list or a built mesh is written, and the file is *)
(* loaded with read and removeDuplicateVertices.                           *)

\* The most operations applied in a row to one built mesh or list.
MaxOps == 2

\* The longest triangle list written to a file.
MaxFile == 2

\* An operation can be applied: a mesh was built or a list was made.
Ready == call.op \notin {"new", "read"}

\* The operations applied since the mesh was built or the list was made.
OpsDone == IF "n" \in DOMAIN call THEN call.n ELSE 0

Applicable == Ready /\ OpsDone < MaxOps

\* writeAsciiStlFromTriangles(path, out) with a path that can be opened.
WriteAsciiStlFromTriangles ==
    /\ Applicable
    /\ call' = [op |-> "writeAsciiStlFromTriangles", threw |-> FALSE, ret |-> TRUE,
                file |-> writeAsciiStlFromTriangles(out), wrote |-> out,
                n |-> OpsDone + 1]
    /\ UNCHANGED <<reader, out, tr>>

\* writeAsciiStl(path) with a path that can be opened.
WriteAsciiStl ==
    /\ Applicable
    /\ call' = [op |-> "writeAsciiStl", threw |-> FALSE, ret |-> TRUE,
                file |-> writeAsciiStl, wrote |-> MeshFacets, n |-> OpsDone + 1]
    /\ UNCHANGED <<reader, out, tr>>

\* writeAsciiStl(path, onlyIndices) with a path that can be opened.
WriteAsciiStlOnly(onlyIndices) ==
    /\ Applicable
    /\ call' = [op |-> "writeAsciiStlOnly", threw |-> FALSE, ret |-> TRUE,
                onlyIndices |-> onlyIndices, file |-> writeAsciiStlOnly(onlyIndices),
                n |-> OpsDone + 1]
    /\ UNCHANGED <<reader, out, tr>>

\* read(path) of the file just written.
ReadFile ==
    /\ call.op \in {"writeAsciiStlFromTriangles", "writeAsciiStl"}
    /\ triangles_' = readAscii(call.file).triangles
    /\ call' = [op |-> "read", ret |-> readAscii(call.file).ret, wrote |-> call.wrote]
    /\ UNCHANGED <<vertices_, indexedTriangles_, originalFacetNormals_, out, tr>>

\* The facets of the written lists: corners with one digit, with a short
\* decimal, with four digits and with seven digits.
FilePool ==
    LET A == P(0, 0, 0)  D == P(0, 1, 0)  E == P(0, 0, 1)
    IN  {Facet(P(1, 0, 0), D, E), Facet(A, D, P(-2, 0, 0)), Facet(A, Vec(3, 0, 0, 2), D),
         Facet(E, P(1500, 0, 0), D), Facet(A, P(1000001, 0, 0), E)}

FileLists == UNION {[1..n -> FilePool] : n \in 0..MaxFile}

NextFile ==
    \/ \E T \in FileLists : CallerList(T)
    \/ \E raw \in FileLists : Read(raw)
    \/ RemoveDuplicateVertices
    \/ WriteAsciiStlFromTriangles
    \/ WriteAsciiStl
    \/ ReadFile
    \/ Volume

SpecFile == Init /\ [][NextFile]_vars

\* The mesh is built from a file that one of the writers wrote.
Reloading ==
    /\ call.op = "read"
    /\ "wrote" \in DOMAIN call
    /\ call'.op = "removeDuplicateVertices"

\* C18: a list written with writeAsciiStlFromTriangles, or a built mesh
\* written with writeAsciiStl, is loaded again by read, which succeeds, and
\* removeDuplicateVertices, and the mesh has as many triangles as were
\* written, with the same vertices in the same order.
C18_RoundTripSameVertices ==
    [][Reloading =>
        /\ call.ret
        /\ Len(indexedTriangles_') = Len(call.wrote)
        /\ \A i \in 1..Len(call.wrote) :
              /\ vertices_'[indexedTriangles_'[i].v0 + 1] = call.wrote[i].v0
              /\ vertices_'[indexedTriangles_'[i].v1 + 1] = call.wrote[i].v1
              /\ vertices_'[indexedTriangles_'[i].v2 + 1] = call.wrote[i].v2]_vars

--------------------------------------------------------------------------
(* The operations on a built mesh, applied one after the other in any      *)
(* order.  An operation that leaves by an exception has threw = TRUE.      *)

\* The call's record, with the count of the operations applied so far.
Returned(r) == call' = r @@ [n |-> OpsDone + 1]

\* getTriangle(i): indexedTriangles_.at(i) throws std::out_of_range past the end.
GetTriangle(i) ==
    /\ Applicable
    /\ IF i < Len(indexedTriangles_)
       THEN Returned([op |-> "getTriangle", indices |-> <<i>>, threw |-> FALSE,
                      ret |-> getTriangle(i)])
       ELSE Returned([op |-> "getTriangle", indices |-> <<i>>, threw |-> TRUE])
    /\ UNCHANGED <<reader, out, tr>>

\* rayIntersect(triIndex, ro, rd, t): it begins with getTriangle(triIndex).
RayIntersect(triIndex, ray) ==
    /\ Applicable
    /\ IF triIndex < Len(indexedTriangles_)
       THEN Returned([op |-> "rayIntersect", indices |-> <<triIndex>>, threw |-> FALSE,
                      ray |-> ray,
                      ret |-> rayIntersect(triIndex, ray.rayOrig, ray.rayDir)])
       ELSE Returned([op |-> "rayIntersect", indices |-> <<triIndex>>, threw |-> TRUE,
                      ray |-> ray])
    /\ UNCHANGED <<reader, out, tr>>

\* volume()
CallVolume ==
    /\ Applicable
    /\ Returned([op |-> "volume", threw |-> FALSE, ret |-> volume])
    /\ UNCHANGED <<reader, out, tr>>

\* checkWatertight(report)
CallCheckWatertight ==
    /\ Applicable
    /\ Returned([op |-> "checkWatertight", threw |-> FALSE,
                 ret |-> checkWatertight.watertight, report |-> checkWatertight])
    /\ UNCHANGED <<reader, out, tr>>

\* checkRightHandWinding(report)
CallCheckRightHandWinding ==
    /\ Applicable
    /\ Returned([op |-> "checkRightHandWinding", threw |-> FALSE,
                 report |-> checkRightHandWinding])
    /\ UNCHANGED <<reader, out, tr>>

\* What addCaps(subset, out) leaves: the list, and the loops it capped.
CapsReturned(st, subset) ==
    /\ out' = st.outTriangles
    /\ Returned([op |-> "addCaps", indices |-> subset, subset |-> subset,
                 threw |-> FALSE, capped |-> st.capped, before |-> out])

\* addCaps(subset, out); the indices past the end are passed over.
CallAddCaps(subset) ==
    /\ Applicable
    /\ CapsReturned(RunTrace(TraceBegin(subset)), subset)
    /\ UNCHANGED <<reader, tr>>

\* What computeFluidMesh leaves: the list, and the subset it selected.
FluidReturned(r) ==
    /\ out' = r.triangles
    /\ Returned([op |-> "computeFluidMesh", threw |-> FALSE,
                 evenHitTriangles |-> r.evenHitTriangles, report |-> r.noTriangles])

\* computeFluidMesh(out, report, originOffset, tMin, tEps)
CallComputeFluidMesh(originOffset, tMin, tEps) ==
    /\ Applicable
    /\ FluidReturned(computeFluidMesh(originOffset, tMin, tEps))
    /\ UNCHANGED <<reader, tr>>

\* What cleanMesh leaves: the list, and its report.
CleanReturned(r) ==
    /\ out' = r.triangles
    /\ Returned([op |-> "cleanMesh", threw |-> FALSE, report |-> r, before |-> out])

\* A cleanMesh that builds the reader's mesh anew from the cleaned list.
CallCleanMesh_InPlace ==
    /\ Applicable
    /\ CleanReturned(cleanMesh(out))
    /\ vertices_' = MergeVertices(cleanMesh(out).triangles, <<>>)
    /\ UNCHANGED <<triangles_, indexedTriangles_, originalFacetNormals_, tr>>

\* cleanMesh(out, report)
CallCleanMesh ==
    /\ Applicable
    /\ CleanReturned(cleanMesh(out))
    /\ UNCHANGED <<reader, tr>>

\* The tetrahedron without its first facet, and with a facet that repeats a
\* corner.
OpsFiles ==
    {<<>>, <<Plate(0, TRUE)>>, <<Plate(0, TRUE), Plate(1, FALSE)>>,
     <<Plate(0, TRUE), Plate(1, FALSE), Plate(2, TRUE)>>,
     Tetrahedron, Dropped(Tetrahedron, 1), WithNeedle(Dropped(Tetrahedron, 1))}

\* The index lists handed over: in range, past the end, and both.
OpsSubsets == {<<>>, <<0>>, <<1, 0>>, <<0, 0>>, <<0, 1, 2>>, <<4>>, <<0, 4>>}

OpsIndices == {0, 1, 4}

\* A ray up the z axis from below the plates.
OpsRay == [rayOrig |-> P(1, 1, -1), rayDir |-> P(0, 0, 1)]

NextOps ==
    \/ \E raw \in OpsFiles : Read(raw)
    \/ RemoveDuplicateVertices
    \/ \E i \in OpsIndices : GetTriangle(i)
    \/ \E i \in OpsIndices : RayIntersect(i, OpsRay)
    \/ CallVolume
    \/ CallCheckWatertight
    \/ CallCheckRightHandWinding
    \/ \E subset \in OpsSubsets : CallAddCaps(subset)
    \/ \E tMin \in TMins : CallComputeFluidMesh(Rat(0, 1), tMin, Rat(0, 1))
    \/ CallCleanMesh
    \/ WriteAsciiStl
    \/ \E onlyIndices \in OpsSubsets : WriteAsciiStlOnly(onlyIndices)
    \/ WriteAsciiStlFromTriangles

SpecOps == Init /\ [][NextOps]_vars


\* The mesh has no vertex and no triangle.
EmptyMesh == vertices_ = <<>> /\ indexedTriangles_ = <<>>

\* An operation of the sequence has returned or thrown.
Applied == "n" \in DOMAIN call

\* C15: on an empty mesh no core operation fails: computeFluidMesh selects
\* the empty subset and leaves an empty list, addCaps leaves an empty list,
\* volume() is 0 and checkWatertight reports "no triangles"; cleanMesh on an
\* empty list leaves it empty and reports "No triangles".
C15_EmptyMeshNoFailure ==
    Applied =>
        /\ (EmptyMesh /\ call.op \in {"computeFluidMesh", "addCaps", "cleanMesh", "volume",
                                      "checkWatertight"}) => ~call.threw
        /\ (EmptyMesh /\ call.op = "computeFluidMesh") =>
              call.evenHitTriangles = <<>> /\ out = <<>>
        /\ (EmptyMesh /\ call.op = "addCaps") => out = <<>>
        /\ (EmptyMesh /\ call.op = "volume") => call.ret = Rat(0, 1)
        /\ (EmptyMesh /\ call.op = "checkWatertight") =>
              call.report.noTriangles /\ ~call.ret
        /\ (call.op = "cleanMesh" /\ call.before = <<>>) =>
              ~call.threw /\ out = <<>> /\ call.report.noTriangles

\* checkWatertight has reported on an empty mesh after another operation.
C15_Witness ==
    /\ Applied /\ EmptyMesh
    /\ call.op = "checkWatertight" /\ call.n = 2
    /\ call.report.noTriangles

\* C16: getTriangle, rayIntersect and addCaps do not complete normally
\* when they are handed a triangle index >= triangleCount().
C16_OutOfRangeIsFatal ==
    (/\ Applied
     /\ call.op \in {"getTriangle", "rayIntersect", "addCaps"}
     /\ \E j \in 1..Len(call.indices) : call.indices[j] >= triangleCount)
    => call.threw

\* A triangle of the list is a cap of one of the capped loops: its first
\* corner is the loop's centroid and its other two are the ends of one of
\* the loop's sides.
CapOfLoop(t) ==
    \E n \in 1..Len(call.capped) :
        /\ Len(call.capped[n]) >= 3
        /\ t.v0 = LoopCentroid(call.capped[n])
        /\ \E i \in 1..Len(call.capped[n]) :
              {t.v1, t.v2} = {vertices_[call.capped[n][i] + 1],
                              vertices_[call.capped[n][(i % Len(call.capped[n])) + 1] + 1]}

\* C17: for a subset S of valid indices the list addCaps leaves starts with
\* |S| triangles, the j-th being getTriangle(S[j]), every later triangle is
\* a generated cap, and nothing of the list's previous content is kept.
C17_SubsetThenCaps ==
    (/\ Applied
     /\ call.op = "addCaps"
     /\ \A j \in 1..Len(call.subset) : call.subset[j] < triangleCount)
    => /\ Len(out) >= Len(call.subset)
       /\ \A j \in 1..Len(call.subset) : out[j] = getTriangle(call.subset[j])
       /\ \A j \in (Len(call.subset) + 1)..Len(out) : CapOfLoop(out[j])
       /\ out = addCaps(call.subset)

\* addCaps was handed a list that held another subset and its caps, and
\* left two triangles of the mesh and their caps.
C17_Witness ==
    /\ Applied
    /\ call.op = "addCaps"
    /\ call.subset = <<1, 0>>
    /\ triangleCount >= 3
    /\ Len(call.before) > 3
    /\ call.before[1] # out[1]
    /\ Len(out) > 2

\* C20: once the mesh is built, every operation of a sequence leaves the
\* vertex table, the indexed triangles and the retained normals as they
\* were; capping and cleaning change the caller's list only.
C20_ReaderUnchanged ==
    [][Ready => UNCHANGED <<vertices_, indexedTriangles_, originalFacetNormals_>>]_vars

\* cleanMesh has shortened a list that addCaps made, as the second
\* operation on a mesh of triangles.
C20_Witness ==
    /\ Applied
    /\ call.op = "cleanMesh" /\ call.n = 2
    /\ indexedTriangles_ # <<>>
    /\ Len(out) < Len(call.before)

--------------------------------------------------------------------------
(* Properties of the classifier on convex solids *)

\* The mesh is closed and consistently wound, and convex with its facets
\* wound outward: no vertex lies in front of the plane of a facet.
ConvexOutward ==
    /\ ClosedConsistent
    /\ \A i \in 1..Len(indexedTriangles_) :
          /\ ~IsZero(MeshFacets[i].normal)
          /\ \A j \in 1..Len(vertices_) :
                Dot(MeshFacets[i].normal, VSub(vertices_[j], MeshFacets[i].v0)).num <= 0

\* C21: on a convex closed mesh with outward-wound facets, with an origin
\* offset that is not negative, the ray of every facet has no hit on another
\* facet, every distinct-hit count is zero, no facet is selected and
\* computeFluidMesh leaves an empty list.
C21_ConvexAllExterior ==
    (Classified /\ ConvexOutward /\ call.originOffset.num >= 0) =>
        /\ \A i \in 0..(Len(indexedTriangles_) - 1) :
              /\ RayHits(i, call.originOffset, call.tMin) = {}
              /\ distinctHits(i, call.originOffset, call.tMin, call.tEps) = 0
        /\ call.evenHitTriangles = <<>>
        /\ out = <<>>

\* The tetrahedron was classified with its rays cast from half a unit in
\* front of the facets, and the line of one of the rays meets another facet
\* behind the ray's origin.
C21_Witness ==
    /\ Classified /\ ConvexOutward
    /\ Len(indexedTriangles_) = 4
    /\ call.originOffset = Rat(1, 2) /\ call.tMin = Rat(0, 1)
    /\ out = <<>>
    /\ \E i, k \in 0..3 :
          /\ k # i
          /\ rayIntersect(k, Ray(i, call.originOffset).rayOrig,
                          VNeg(Ray(i, call.originOffset).rayDir)).hit

--------------------------------------------------------------------------
(* The intersector's specification: rays are cast at the triangles of a    *)
(* built mesh.                                                             *)

\* A triangle with its corners on one line, after a plate.
WithSliver(m) == Append(m, Tri(Vec(0, 0, 1, 1), P(0, 0, 0), P(1, 0, 0), P(2, 0, 0)))

RayFiles ==
    {<<Plate(0, TRUE)>>, <<Plate(0, FALSE), Plate(1, TRUE)>>, Tetrahedron,
     WithSliver(<<Plate(0, TRUE)>>)}

\* Origins below a plate's inside, edge and corner and beside it, in its
\* plane, and 2e-6, 1e-6 and 5e-7 below it.
RayOrigins ==
    {P(1, 1, -1), P(0, 1, -1), P(0, 0, -1), P(5, 5, -1), P(1, 1, 0), Vec(1, 1, 1, 2),
     Vec(500000, 500000, -1, 500000), Vec(1000000, 1000000, -1, 1000000),
     Vec(2000000, 2000000, -1, 2000000)}

\* Directions, each with its opposite; rayIntersect takes them as they are.
RayDirections ==
    {P(0, 0, 1), P(0, 0, -1), P(1, 0, 0), P(-1, 0, 0), P(1, 1, 2), P(-1, -1, -2)}

Rays == {[rayOrig |-> ro, rayDir |-> rd] : ro \in RayOrigins, rd \in RayDirections}

RayIndices == {0, 1}

NextRay ==
    \/ \E raw \in RayFiles : Read(raw)
    \/ RemoveDuplicateVertices
    \/ \E i \in RayIndices, ray \in Rays : RayIntersect(i, ray)

SpecRay == Init /\ [][NextRay]_vars

\* A vector of three rationals.
QVec(x, y, z) == [x |-> x, y |-> y, z |-> z]

QOf(v) == QVec(Rat(v.x, v.w), Rat(v.y, v.w), Rat(v.z, v.w))

RNeg(a) == [num |-> -a.num, den |-> a.den]

QAdd(a, b) == QVec(RAdd(a.x, b.x), RAdd(a.y, b.y), RAdd(a.z, b.z))

QScale(c, a) == QVec(RMul(c, a.x), RMul(c, a.y), RMul(c, a.z))

QDot(a, b) == RAdd(RAdd(RMul(a.x, b.x), RMul(a.y, b.y)), RMul(a.z, b.z))

QCross(a, b) ==
    QVec(RAdd(RMul(a.y, b.z), RNeg(RMul(a.z, b.y))),
         RAdd(RMul(a.z, b.x), RNeg(RMul(a.x, b.z))),
         RAdd(RMul(a.x, b.y), RNeg(RMul(a.y, b.x))))

\* The point ro + t rd lies in the closed triangle: with d its offset from
\* v0 and n = e1 x e2, d is in the plane and d = u e1 + v e2 with
\* u = (d x e2).n / n.n >= 0, v = (e1 x d).n / n.n >= 0 and u + v <= 1.
PointInTriangle(tri, ro, rd, t) ==
    LET e1 == QOf(VSub(tri.v1, tri.v0))
        e2 == QOf(VSub(tri.v2, tri.v0))
        n  == QCross(e1, e2)
        d  == QAdd(QAdd(QOf(ro), QScale(t, QOf(rd))), QScale(Rat(-1, 1), QOf(tri.v0)))
        un == QDot(QCross(d, e2), n)
        vn == QDot(QCross(e1, d), n)
    IN  /\ QDot(n, d).num = 0
        /\ un.num >= 0
        /\ vn.num >= 0
        /\ RAdd(QDot(n, n), RNeg(RAdd(un, vn))).num >= 0

RayCast == Applied /\ call.op = "rayIntersect" /\ ~call.threw

\* C22: when rayIntersect reports a hit, the distance is above eps and so
\* positive, the point at that distance lies in the closed triangle
\* (0 <= u, 0 <= v, u + v <= 1), and the ray from the same origin in the
\* opposite direction does not hit the same triangle.
C22_HitIsAheadAndInside ==
    (RayCast /\ call.ret.hit) =>
        /\ RAdd(call.ret.t, RNeg(eps)).num > 0
        /\ call.ret.t.num > 0
        /\ PointInTriangle(getTriangle(call.indices[1]), call.ray.rayOrig, call.ray.rayDir,
                           call.ret.t)
        /\ ~rayIntersect(call.indices[1], call.ray.rayOrig, VNeg(call.ray.rayDir)).hit

\* A ray from 2e-6 below a plate hit it at that distance, on a mesh where
\* the ray from 1e-6 below with the same direction does not.
C22_Witness ==
    /\ RayCast /\ call.ret.hit
    /\ call.ret.t = Rat(1, 500000)
    /\ \E ray \in Rays :
          /\ ray.rayDir = call.ray.rayDir
          /\ ray.rayOrig = Vec(1000000, 1000000, -1, 1000000)
          /\ ~rayIntersect(call.indices[1], ray.rayOrig, ray.rayDir).hit

\* A ray whose line meets the triangle behind its origin was cast, and
\* missed.
C22_WitnessBehind ==
    /\ RayCast /\ ~call.ret.hit
    /\ rayIntersect(call.indices[1], call.ray.rayOrig, VNeg(call.ray.rayDir)).hit

--------------------------------------------------------------------------
(* The merging of hit distances *)

\* The sorted hit distances of facet i in the classification just made.
HitDistances(i) == SortHits(RayHits(i, call.originOffset, call.tMin))

\* L is the set of counted positions of the distances ts under the
\* first-in-run rule: the first position is counted, and a later position is
\* counted exactly when its distance is more than tEps above the distance at
\* the last counted position before it.
FirstInRun(ts, L, tEps) ==
    /\ ts # <<>> => 1 \in L
    /\ \A j \in 2..Len(ts) :
          LET last == CHOOSE l \in L : l < j /\ \A m \in L : m < j => m <= l
          IN  j \in L <=> RLess(tEps, RSub(ts[j], ts[last]))

\* C23: the hit distances are in ascending order, and the distinct-hit count
\* of every facet is the number of positions counted by the first-in-run
\* rule, which fixes the counted positions.
C23_FirstInRunCount ==
    Classified =>
        \A i \in 0..(Len(indexedTriangles_) - 1) :
            LET ts == HitDistances(i)
                runs == {L \in SUBSET (1..Len(ts)) : FirstInRun(ts, L, call.tEps)}
            IN  /\ \A j \in 2..Len(ts) : ~RLess(ts[j], ts[j - 1])
                /\ Cardinality(runs) = 1
                /\ \A L \in runs :
                      distinctHits(i, call.originOffset, call.tMin, call.tEps)
                          = Cardinality(L)

\* A facet has three hits, each within tEps of the one before it, and a
\* distinct-hit count of two.
C23_Witness ==
    /\ Classified
    /\ \E i \in 0..(Len(indexedTriangles_) - 1) :
          /\ Len(HitDistances(i)) = 3
          /\ \A j \in 2..3 :
                ~RLess(call.tEps, RSub(HitDistances(i)[j], HitDistances(i)[j - 1]))
          /\ distinctHits(i, call.originOffset, call.tMin, call.tEps) = 2

--------------------------------------------------------------------------
(* The orientation of the caps *)

\* The boundary edges a -> b of the call, with the triangle that owns each.
Owners(a, b) ==
    {call.boundaryEdges[k].triIdx : k \in {m \in 1..Len(call.boundaryEdges) :
        call.boundaryEdges[m].from = a /\ call.boundaryEdges[m].to = b}}

\* The cap of side i of a loop when it is oriented against the normal of
\* triangle ti: (C, a, b) with the computed normal if the dot product is not
\* negative, (C, b, a) with the negated normal otherwise.
OrientedCap(loop, i, ti) ==
    LET C  == LoopCentroid(loop)
        va == vertices_[loop[i] + 1]
        vb == vertices_[loop[(i % Len(loop)) + 1] + 1]
        n  == Normalized(Cross(VSub(va, C), VSub(vb, C)))
    IN  IF DotSign(n, getTriangle(ti).normal) >= 0 THEN Tri(n, C, va, vb)
        ELSE Tri(VNeg(n), C, vb, va)

\* The caps of the list that lie on side i of a loop.
CapsOnSide(loop, i) ==
    {j \in 1..Len(Caps) :
        /\ Caps[j].v0 = LoopCentroid(loop)
        /\ {Caps[j].v1, Caps[j].v2}
              = {vertices_[loop[i] + 1], vertices_[loop[(i % Len(loop)) + 1] + 1]}}

\* C24: every cap on a loop edge a -> b is oriented against the normal of
\* the subset triangle that owns the boundary edge a -> b, so its stored
\* normal has no negative dot product with that triangle's normal.
C24_CapOrientedByEdgeOwner ==
    call.op = "addCaps" =>
        \A n \in 1..Len(call.capped) :
            \A i \in 1..Len(call.capped[n]) :
                \A ti \in Owners(call.capped[n][i],
                                 call.capped[n][(i % Len(call.capped[n])) + 1]) :
                    \A j \in CapsOnSide(call.capped[n], i) :
                        /\ Caps[j] = OrientedCap(call.capped[n], i, ti)
                        /\ DotSign(Caps[j].normal, getTriangle(ti).normal) >= 0

--------------------------------------------------------------------------
(* The split of a self-touching path *)

\* The unused boundary edges that leave the end of the path, by position.
Leaving(st) ==
    {k \in 1..Len(st.boundaryEdges) :
        /\ st.boundaryEdges[k].from = st.to
        /\ <<st.to, st.boundaryEdges[k].to>> \notin st.used}

\* The next boundary vertex: the head of the first unused edge that leaves
\* the end of the path.
NextVertex(st) == st.boundaryEdges[CHOOSE k \in Leaving(st) : \A m \in Leaving(st) : k <= m].to

\* The trace is in its while loop, and the next boundary vertex is in the
\* path at a position other than the start.
AtRepeat(st) ==
    /\ st.pc = "inner"
    /\ st.to # st.start
    /\ Leaving(st) # {}
    /\ NextVertex(st) # st.start
    /\ \E i \in 1..Len(st.loop) : st.loop[i] = NextVertex(st)

\* C25: when the next boundary vertex is in the path at a position idx other
\* than the start, the step caps the suffix of the path from idx as one
\* loop, marks the closing edge as used, cuts the path after idx and goes on
\* from that vertex; and the path that is left when the while loop ends is
\* capped as a loop of its own.
C25_SplitAtRepeat ==
    [][/\ AtRepeat(tr) =>
            LET nextV == NextVertex(tr)
                idx == IndexIn(tr.loop, nextV)
                subLoop == SubSeq(tr.loop, idx, Len(tr.loop))
            IN  /\ tr'.pc = "inner"
                /\ tr'.capped = Append(tr.capped, subLoop)
                /\ tr'.outTriangles = capOneLoop(tr.outTriangles, subLoop, tr.triOnLoop[idx])
                /\ tr'.used = tr.used \cup {<<tr.to, nextV>>}
                /\ tr'.loop = SubSeq(tr.loop, 1, idx)
                /\ tr'.to = nextV
                /\ tr'.start = tr.start
       /\ (tr.pc = "inner" /\ tr'.pc = "outer") =>
            /\ tr'.capped = Append(tr.capped, tr.loop)
            /\ tr'.outTriangles = capOneLoop(tr.outTriangles, tr.loop, tr.triOnLoop[1])]_vars

--------------------------------------------------------------------------
(* The figures of the cleaner's report *)

\* C26: every triangle cleanMesh discards is counted as a degenerate or as
\* a duplicate: the count after is the count before less the degenerates
\* removed and the duplicates removed, and it is the length of the list.
C26_RemovalsCounted ==
    (Cleaned /\ call.input # <<>>) =>
        /\ call.report.before = Len(call.input)
        /\ call.report.after = Len(out)
        /\ call.report.after
              = call.report.before - call.report.degenerate - call.report.dupTris

\* The input triangles left after the removal of those that repeat a corner
\* and of the later copies.
Survivors(T) == {i \in 1..Len(T) : ~RepeatsCorner(T, i) /\ ~LaterCopy(T, i)}

\* The survivors that have both ends of the edge e as corners.
OnEdge(T, e) == {i \in Survivors(T) : e \subseteq Corners(T, i)}

\* The undirected edges on more than 2 of the survivors.
NonManifold(T) ==
    {e \in UNION {{{T[i].v0, T[i].v1}, {T[i].v1, T[i].v2}, {T[i].v2, T[i].v0}} :
                     i \in Survivors(T)} :
        Cardinality(OnEdge(T, e)) > 2}

\* C27 as stated: the non-manifold figure of cleanMesh is the number of
\* undirected edges on more than 2 of the triangles left after degenerate
\* and duplicate removal, and all the triangles on such an edge are in the
\* output, in input order.
C27_AllOnEdgeKept ==
    (Cleaned /\ call.input # <<>>) =>
        LET T == call.input
            kept == {i \in 1..Len(T) : \E e \in NonManifold(T) : i \in OnEdge(T, e)}
        IN  /\ call.report.dupEdges = Cardinality(NonManifold(T))
            /\ CornerList(Selected(out, {j \in 1..Len(out) :
                    \E i \in kept : CornerList(out)[j] = CornerList(T)[i]}))
                  = CornerList(Selected(T, kept))

\* C27, amended: the non-manifold figure of cleanMesh is the number of
\* undirected edges on more than 2 of the triangles left after degenerate
\* and duplicate removal, and the triangles on such an edge are in the
\* output, in input order, unless their area is zero.
C27_NonManifoldCountedNotRemoved ==
    (Cleaned /\ call.input # <<>>) =>
        LET T == call.input
            kept == {i \in 1..Len(T) :
                        \E e \in NonManifold(T) : i \in OnEdge(T, e) /\ ~Collinear(T, i)}
            at == [i \in kept |-> CHOOSE j \in 1..Len(out) :
                                     CornerList(out)[j] = CornerList(T)[i]]
        IN  /\ call.report.dupEdges = Cardinality(NonManifold(T))
            /\ \A i \in kept : \E j \in 1..Len(out) : CornerList(out)[j] = CornerList(T)[i]
            /\ \A i, k \in kept : i < k => at[i] < at[k]

\* Three triangles on one edge were cleaned: one non-manifold edge is
\* reported and the three are in the output.
C27_Witness ==
    /\ Cleaned
    /\ Len(call.input) = 3
    /\ call.report.dupEdges = 1
    /\ Len(out) = 3

--------------------------------------------------------------------------
(* The winding of the fluid mesh *)

\* The sides of a triangle of a list, as directed pairs of positions.
DirectedSides(t) == {<<t.v0, t.v1>>, <<t.v1, t.v2>>, <<t.v2, t.v0>>}

\* Triangle j of the fluid mesh is one of the retained facets.
IsRetainedFacet(j) ==
    \E i \in 1..Len(call.evenHitTriangles) :
        CornerList(out)[j] = CornerList(<<getTriangle(call.evenHitTriangles[i])>>)[1]

\* C28: in the list computeFluidMesh returns, an edge shared by a retained
\* facet and a cap, or by two caps, is traversed in opposite directions by
\* the two triangles: no two such triangles have a directed side in common.
C28_FluidWindingConsistent ==
    Classified =>
        \A j, k \in 1..Len(out) :
            (j < k /\ ~(IsRetainedFacet(j) /\ IsRetainedFacet(k))) =>
                DirectedSides(out[j]) \cap DirectedSides(out[k]) = {}

--------------------------------------------------------------------------
(* The capper under renumbering: a reader caps a subset, reads the same    *)
(* solid from a file that lists the facets in another order, builds the    *)
(* mesh again and caps again.                                              *)

\* read(path) on a reader that has capped: the raw list is replaced, the
\* tables stay as they are until removeDuplicateVertices runs again.
ReadAgain(raw) ==
    /\ call.op = "addCaps"
    /\ triangles_' = raw
    /\ call' = [op |-> "read", ret |-> (raw # <<>>)]
    /\ UNCHANGED <<vertices_, indexedTriangles_, originalFacetNormals_, out, tr>>

\* The bipyramid in three file orders, the last of which numbers an equator
\* vertex 0, and the tetrahedron in two.
RenumberFiles ==
    {Bipyramid, Reordered(Bipyramid, 5, 0), Reordered(Bipyramid, 5, 2),
     Tetrahedron, Reordered(Tetrahedron, 1, 0)}

\* The longest index list capped before and after a renumbering.
MaxRenumbered == 2

NextRenumber ==
    \/ \E raw \in RenumberFiles : Read(raw)
    \/ RemoveDuplicateVertices
    \/ \E subset \in {s \in Subsets : Len(s) <= MaxRenumbered} : AddCaps(subset)
    \/ \E raw \in RenumberFiles : ReadAgain(raw)

SpecRenumber == Init /\ [][NextRenumber]_vars

\* The corners of a triangle, as a set of positions.
CornerSet(t) == {t.v0, t.v1, t.v2}

\* The boundary edges the caps of an addCaps result cover, by position: a cap
\* (centroid, a, b) or (centroid, b, a) lies on the edge of a and b.
CoveredEdges(o, n) == {{o[j].v1, o[j].v2} : j \in (n + 1)..Len(o)}

\* The list o is the result of capping the same n facets: it starts with
\* them, and none of its later triangles is a facet of the mesh m.
CappedSameFacets(o, n, now, m) ==
    /\ Len(o) >= n
    /\ {CornerSet(o[j]) : j \in 1..n} = {CornerSet(now[j]) : j \in 1..n}
    /\ \A j \in (n + 1)..Len(o) :
          \A i \in 1..Len(m) : CornerSet(o[j]) # {vertices_[m[i].v0 + 1],
                                                  vertices_[m[i].v1 + 1],
                                                  vertices_[m[i].v2 + 1]}

\* C29: when the same facets of the same solid are capped again after the
\* vertices were numbered in another way, addCaps returns as many caps as
\* before and the caps cover the same boundary edges.
C29_CapsIndependentOfNumbering ==
    [][(Built /\ call'.op = "addCaps"
          /\ CappedSameFacets(out, Len(call'.subset), out', indexedTriangles_)) =>
            /\ Len(out') = Len(out)
            /\ CoveredEdges(out', Len(call'.subset)) = CoveredEdges(out, Len(call'.subset))]_vars

--------------------------------------------------------------------------
(* The builder called twice: removeDuplicateVertices runs again on a       *)
(* loaded reader with no read in between.                                  *)

\* removeDuplicateVertices() on the built mesh: the raw list is as the first
\* call left it.
RemoveDuplicateVerticesAgain ==
    /\ Built
    /\ LET r == removeDuplicateVertices(triangles_)
       IN  /\ originalFacetNormals_' = r.originalFacetNormals
           /\ vertices_' = r.vertices
           /\ indexedTriangles_' = r.indexedTriangles
           /\ triangles_' = r.triangles
    /\ call' = [op |-> "removeDuplicateVertices", again |-> TRUE]
    /\ UNCHANGED <<out, tr>>

NextTwice ==
    \/ \E raw \in BuildFiles : Read(raw)
    \/ RemoveDuplicateVertices
    \/ RemoveDuplicateVerticesAgain

SpecTwice == Init /\ [][NextTwice]_vars

\* C30: a second removeDuplicateVertices with no read in between leaves the
\* vertex table, the indexed triangles, triangleCount() and the retained
\* original normals as the first call left them.
C30_SecondBuildChangesNothing ==
    [][(Built /\ call'.op = "removeDuplicateVertices") =>
          /\ vertices_' = vertices_
          /\ indexedTriangles_' = indexedTriangles_
          /\ Len(indexedTriangles_') = triangleCount
          /\ originalFacetNormals_' = originalFacetNormals_]_vars

==========================================================================
